---- MODULE Spec2Model ----
(***************************************************************************)
(* DictionaRead: the shortcut handler of the background service worker     *)
(* (background.js) and the popup renderer of the content script            *)
(* (content.js).                                                           *)
(*                                                                         *)
(* Text is a sequence of one-character strings.  An awaited call of the    *)
(* command handler is one step of the lookup that issued it; the code that *)
(* runs between two awaits belongs to the step that ends the first await.  *)
(***************************************************************************)
EXTENDS Naturals, Integers, Sequences, FiniteSets, TLC

\* ------------------------------------------------------------------ bounds
\* shortcut presses (invocations of the command handler, which may overlap)
\* in one behaviour
MaxLookups == 1

\* length of the selected texts the sanitizer is run on
MaxLen == 5

\* calls of chrome.storage.local.set the toggle panel has in flight
MaxPending == 2

\* meanings of an entry and definitions of a meaning formatDefinition is run on
MaxMeanings == 2
MaxDefinitions == 4

\* -------------------------------------------------------- program constants
\* background.js:8
API_TIMEOUT == 5000
\* background.js:53,55  (selectedText.length > 50, substring(0, 50))
SELECTION_LIMIT == 50
\* background.js:124  (grace period before the resend)
INJECT_WAIT == 100

\* --------------------------------------------------------------- characters
WordChars == {"a", "c", "t", "z", "0", "_"}
AlnumChars == WordChars \ {"_"}
SpaceChars == {" ", "\t"}

\* \w
IsWord(c) == c \in WordChars
\* \s
IsSpace(c) == c \in SpaceChars
\* [a-zA-Z0-9#]
IsEntityChar(c) == c \in AlnumChars \cup {"#"}
\* [\w\s'-]
IsKept(c) == IsWord(c) \/ IsSpace(c) \/ c = "'" \/ c = "-"

\* String.prototype.substring(0, n)
Substring(s, n) == IF Len(s) <= n THEN s ELSE SubSeq(s, 1, n)

RECURSIVE Rep(_, _)
\* the text made of n copies of the character c
Rep(c, n) == IF n = 0 THEN <<>> ELSE <<c>> \o Rep(c, n - 1)

RECURSIVE TrimLeft(_)
TrimLeft(s) == IF s # <<>> /\ IsSpace(Head(s)) THEN TrimLeft(Tail(s)) ELSE s

RECURSIVE TrimRight(_)
TrimRight(s) ==
  IF s # <<>> /\ IsSpace(s[Len(s)]) THEN TrimRight(SubSeq(s, 1, Len(s) - 1)) ELSE s

\* String.prototype.trim
Trim(s) == TrimRight(TrimLeft(s))

RECURSIVE EntityRun(_, _)
\* the index of the last character of the run of [a-zA-Z0-9#] that starts at i
\* (i - 1 when the run is empty)
EntityRun(s, i) ==
  IF i <= Len(s) /\ IsEntityChar(s[i]) THEN EntityRun(s, i + 1) ELSE i - 1

RECURSIVE RemoveEntitiesFrom(_, _)
\* .replace(/&[a-zA-Z0-9#]+;/g, ''), scanning from index i
RemoveEntitiesFrom(s, i) ==
  IF i > Len(s) THEN <<>>
  ELSE LET e == EntityRun(s, i + 1)
       IN IF s[i] = "&" /\ e >= i + 1 /\ e + 1 <= Len(s) /\ s[e + 1] = ";"
          THEN RemoveEntitiesFrom(s, e + 2)
          ELSE <<s[i]>> \o RemoveEntitiesFrom(s, i + 1)

RemoveEntities(s) == RemoveEntitiesFrom(s, 1)

RECURSIVE KeepAllowed(_)
\* .replace(/[^\w\s'-]/g, '')
KeepAllowed(s) ==
  IF s = <<>> THEN <<>>
  ELSE (IF IsKept(Head(s)) THEN <<Head(s)>> ELSE <<>>) \o KeepAllowed(Tail(s))

RECURSIVE CollapseSpaces(_)
\* .replace(/\s+/g, ' ')
CollapseSpaces(s) ==
  IF s = <<>> THEN <<>>
  ELSE IF IsSpace(Head(s))
       THEN <<" ">> \o CollapseSpaces(TrimLeft(s))
       ELSE <<Head(s)>> \o CollapseSpaces(Tail(s))

\* sanitizeText without its final .trim()
sanitizeTextNoTrim(text) == CollapseSpaces(KeepAllowed(RemoveEntities(text)))

sanitizeText(text) == Trim(CollapseSpaces(KeepAllowed(RemoveEntities(text))))

\* encodeURIComponent on one character: unreserved characters stay, the rest
\* becomes %XX
EncodeChar(c) ==
  IF c \in AlnumChars \cup {"_", "-", "'", "!"} THEN <<c>>
  ELSE IF c = " " THEN <<"%", "2", "0">>
  ELSE IF c = "\t" THEN <<"%", "0", "9">>
  ELSE IF c = "&" THEN <<"%", "2", "6">>
  ELSE IF c = "#" THEN <<"%", "2", "3">>
  ELSE IF c = ";" THEN <<"%", "3", "B">>
  ELSE <<"%", "?", "?">>

RECURSIVE encodeURIComponent(_)
encodeURIComponent(s) ==
  IF s = <<>> THEN <<>> ELSE EncodeChar(Head(s)) \o encodeURIComponent(Tail(s))

\* background.js:7
DICTIONARY_API_BASE == <<"https://api.dictionaryapi.dev/api/v2/entries/en/">>
\* content.js:139
GOOGLE_SEARCH == <<"https://www.google.com/search?q=">>

\* ------------------------------------------------------------- page and API
Phrase == <<"a", " ", "&", "a", ";", "z">>
Junk == <<"!", ";">>
LongWord == Rep("a", SELECTION_LIMIT) \o <<"z">>
LongJunk == Rep("!", SELECTION_LIMIT + 1)

\* what getBoundingClientRect() returns for a range, in viewport coordinates
Rect(top, bottom, left, width) ==
  [top |-> top, bottom |-> bottom, left |-> left, width |-> width]
NoRect == Rect(0, 0, 0, 0)

\* what window.getSelection() can hold: no range at all, or one range with its
\* text and its bounding box
NoSelection == [rangeCount |-> 0, text |-> <<>>, box |-> NoRect]
PageSelections ==
  { NoSelection,
    [rangeCount |-> 1, text |-> <<" ">> \o Phrase, box |-> Rect(30, 40, 20, 20)],
    [rangeCount |-> 1, text |-> Junk, box |-> Rect(40, 50, 20, 20)],
    [rangeCount |-> 1, text |-> LongWord, box |-> Rect(30, 40, 40, 20)],
    [rangeCount |-> 1, text |-> LongJunk, box |-> Rect(40, 50, 40, 20)] }

\* ------------------------------------------------- the page and its window
\* the decimal digits
DigitChars == <<"0", "1", "2", "3", "4", "5", "6", "7", "8", "9">>
IsDigit(c) == \E d \in 1..10 : DigitChars[d] = c
DigitValue(c) == (CHOOSE d \in 1..10 : DigitChars[d] = c) - 1

\* the decimal notation of a number
RECURSIVE Decimal(_)
Decimal(n) ==
  IF n < 10 THEN << DigitChars[n + 1] >>
  ELSE Decimal(n \div 10) \o << DigitChars[(n % 10) + 1] >>

\* the computed background-color of an opaque colour
RgbString(r, g, b) ==
  <<"r", "g", "b", "(">> \o Decimal(r) \o <<",", " ">> \o Decimal(g)
  \o <<",", " ">> \o Decimal(b) \o <<")">>

\* the computed background-color of a page that sets none, of a translucent
\* black, and of a colour in another notation
Transparent == <<"r", "g", "b", "a", "(", "0", ",", " ", "0", ",", " ", "0", ",", " ", "0", ")">>
Translucent == <<"r", "g", "b", "a", "(", "0", ",", " ", "0", ",", " ", "0", ",", " ", "0", ".", "9", ")">>
ColorFunction == <<"c", "o", "l", "o", "r", "(", "s", "r", "g", "b", " ", "0", " ", "0", " ", "0", ")">>

\* the character of s at i, none past its ends
At(s, i) == IF i \in 1..Len(s) THEN s[i] ELSE ""

\* literal starts at position i of s
StartsAt(s, i, literal) == \A k \in 1..Len(literal) : At(s, i + k - 1) = literal[k]

\* String.prototype.includes
Includes(s, literal) == \E i \in 1..Len(s) : StartsAt(s, i, literal)

\* the length of the run of digits of s at i
RECURSIVE DigitRun(_, _)
DigitRun(s, i) == IF IsDigit(At(s, i)) THEN 1 + DigitRun(s, i + 1) ELSE 0

\* the position after the run of white space of s at i
RECURSIVE SkipSpaces(_, _)
SkipSpaces(s, i) == IF IsSpace(At(s, i)) THEN SkipSpaces(s, i + 1) ELSE i

\* Number() of the n digits of s at i
RECURSIVE NumberAt(_, _, _)
NumberAt(s, i, n) ==
  IF n = 0 THEN 0 ELSE NumberAt(s, i, n - 1) * 10 + DigitValue(s[i + n - 1])

\* /rgb\((\d+),\s*(\d+),\s*(\d+)\)/ tried at position i of s
NoMatch == [matched |-> FALSE, r |-> 0, g |-> 0, b |-> 0]
MatchAt(s, i) ==
  LET r0 == i + 4
      n1 == DigitRun(s, r0)
      g0 == SkipSpaces(s, r0 + n1 + 1)
      n2 == DigitRun(s, g0)
      b0 == SkipSpaces(s, g0 + n2 + 1)
      n3 == DigitRun(s, b0)
  IN IF /\ StartsAt(s, i, <<"r", "g", "b", "(">>)
        /\ n1 > 0 /\ At(s, r0 + n1) = ","
        /\ n2 > 0 /\ At(s, g0 + n2) = ","
        /\ n3 > 0 /\ At(s, b0 + n3) = ")"
     THEN [matched |-> TRUE, r |-> NumberAt(s, r0, n1), g |-> NumberAt(s, g0, n2),
           b |-> NumberAt(s, b0, n3)]
     ELSE NoMatch

\* backgroundColor.match(...): the leftmost match
rgbMatch(s) ==
  LET starts == { i \in 1..Len(s) : MatchAt(s, i).matched }
  IN IF starts = {} THEN NoMatch
     ELSE MatchAt(s, CHOOSE i \in starts : \A j \in starts : i <= j)

\* calculateContrastColors; brightness is in thousandths
calculateContrastColors(brightness, isDark) ==
  IF brightness > 200000
  THEN [background |-> "#2c3e50", text |-> "#ffffff", border |-> "#34495e",
        shadow |-> "rgba(0, 0, 0, 0.3)"]
  ELSE IF brightness > 128000
  THEN [background |-> "#34495e", text |-> "#ecf0f1", border |-> "#2c3e50",
        shadow |-> "rgba(0, 0, 0, 0.25)"]
  ELSE [background |-> "#ffffff", text |-> "#2c3e50", border |-> "#e9ecef",
        shadow |-> "rgba(0, 0, 0, 0.15)"]

\* the brightness of lines 220-226 in thousandths ((299r + 587g + 114b) / 1000
\* is the brightness): of the match, or the default of line 220
brightnessOf(rgbMatchResult) ==
  IF rgbMatchResult.matched
  THEN rgbMatchResult.r * 299 + rgbMatchResult.g * 587 + rgbMatchResult.b * 114
  ELSE 255 * 1000

\* detectThemeAndContrast deciding on the brightness alone
detectThemeAndContrastByBrightness(p) ==
  LET brightness == brightnessOf(rgbMatch(p.backgroundColor))
      isDarkTheme == brightness < 128 * 1000
  IN [isDark |-> isDarkTheme, brightness |-> brightness,
      colors |-> calculateContrastColors(brightness, isDarkTheme)]

\* detectThemeAndContrast on the page p: the computed background colour of
\* the body and the classes of the body and of the root element
detectThemeAndContrast(p) ==
  LET brightness == brightnessOf(rgbMatch(p.backgroundColor))
      isDarkTheme == \/ brightness < 128 * 1000
                     \/ p.bodyDark
                     \/ p.rootDark
                     \/ Includes(p.backgroundColor, RgbString(0, 0, 0))
                     \/ Includes(p.backgroundColor, RgbString(20, 20, 20))
  IN [isDark |-> isDarkTheme, brightness |-> brightness,
      colors |-> calculateContrastColors(brightness, isDarkTheme)]

\* the theme of no popup
NoTheme == [isDark |-> FALSE, brightness |-> 0,
            colors |-> [background |-> "", text |-> "", border |-> "", shadow |-> ""]]

\* positionPopup: the margin between selection and popup, and the least
\* distance it keeps from the edges
margin == 5
minLeft == 10
minTop == 10

Max(a, b) == IF a > b THEN a ELSE b
Min(a, b) == IF a < b THEN a ELSE b

\* lines 303-304
spaceAbove(rect, p) == rect.top
spaceBelow(rect, p) == p.innerHeight - rect.bottom

\* lines 308-331: the side chosen
positionAbove(rect, p) ==
  IF spaceAbove(rect, p) >= p.popupHeight + margin THEN TRUE
  ELSE IF spaceBelow(rect, p) >= p.popupHeight + margin THEN FALSE
  ELSE spaceAbove(rect, p) > spaceBelow(rect, p)

\* finalTop without the scroll offset where the popup fits above
finalTopInViewport(rect, p) ==
  IF spaceAbove(rect, p) >= p.popupHeight + margin
  THEN rect.top - p.popupHeight - margin
  ELSE IF spaceBelow(rect, p) >= p.popupHeight + margin
  THEN rect.bottom + p.scrollTop + margin
  ELSE IF spaceAbove(rect, p) > spaceBelow(rect, p)
  THEN Max(minTop, rect.top + p.scrollTop - p.popupHeight - margin)
  ELSE Min(p.innerHeight + p.scrollTop - p.popupHeight - minTop,
           rect.bottom + p.scrollTop + margin)

\* lines 310-331: finalTop
finalTop(rect, p) ==
  IF spaceAbove(rect, p) >= p.popupHeight + margin
  THEN rect.top + p.scrollTop - p.popupHeight - margin
  ELSE IF spaceBelow(rect, p) >= p.popupHeight + margin
  THEN rect.bottom + p.scrollTop + margin
  ELSE IF spaceAbove(rect, p) > spaceBelow(rect, p)
  THEN Max(minTop, rect.top + p.scrollTop - p.popupHeight - margin)
  ELSE Min(p.innerHeight + p.scrollTop - p.popupHeight - minTop,
           rect.bottom + p.scrollTop + margin)

\* line 334: the popup centred on the selection (widths are even numbers)
centred(rect, p) ==
  rect.left + p.scrollLeft + (rect.width \div 2) - (p.popupWidth \div 2)

\* finalLeft clamped on the left only
finalLeftClampedLeft(rect, p) ==
  IF centred(rect, p) < minLeft THEN minLeft ELSE centred(rect, p)

\* lines 334-345: finalLeft
finalLeft(rect, p) ==
  LET maxLeft == p.innerWidth - p.popupWidth - 10
  IN IF centred(rect, p) < minLeft THEN minLeft
     ELSE IF centred(rect, p) > maxLeft THEN maxLeft
     ELSE centred(rect, p)

\* a window of 80 by 60 scrolled to the top of a white page, on which a popup
\* takes 40 by 20
DefaultPage ==
  [innerHeight |-> 60, innerWidth |-> 80, scrollTop |-> 0, scrollLeft |-> 0,
   popupHeight |-> 20, popupWidth |-> 40,
   backgroundColor |-> RgbString(255, 255, 255), bodyDark |-> FALSE,
   rootDark |-> FALSE]

\* a meaning of an entry: its partOfSpeech ("" when it has none) and the
\* definition texts of its definitions array (none when it has no array)
Meaning(partOfSpeech, definitions) ==
  [partOfSpeech |-> partOfSpeech, definitions |-> definitions]

\* texts of the definitions of a meaning, in the order of the array
DefinitionTexts == <<"first", "second", "third", "fourth", "fifth", "sixth">>
Definitions(k) == [i \in 1..k |-> DefinitionTexts[i]]

\* elements of the array the dictionary API answers with
Entry1 == [isNull |-> FALSE, word |-> <<"a", "z">>,
           meanings |-> << Meaning("noun", Definitions(1)) >>]
Entry2 == [isNull |-> FALSE, word |-> <<"z">>,
           meanings |-> << Meaning("noun", Definitions(1)),
                           Meaning("verb", Definitions(2)) >>]
NullEntry == [isNull |-> TRUE, word |-> <<>>, meanings |-> <<>>]
NoData == [isNull |-> TRUE, word |-> <<"-">>, meanings |-> <<>>]

\* what fetch(...) can settle with: a network error, or a response with a
\* status, whose body parses as JSON or not
FetchOutcomes ==
  { [kind |-> "networkError", status |-> 0, statusText |-> "", parses |-> FALSE,
     isArray |-> FALSE, items |-> <<>>] }
  \cup
  { [kind |-> "response", status |-> 404, statusText |-> "Not Found", parses |-> TRUE,
     isArray |-> FALSE, items |-> <<>>],
    [kind |-> "response", status |-> 500, statusText |-> "Internal Server Error",
     parses |-> FALSE, isArray |-> FALSE, items |-> <<>>],
    [kind |-> "response", status |-> 200, statusText |-> "OK", parses |-> FALSE,
     isArray |-> FALSE, items |-> <<>>],
    [kind |-> "response", status |-> 200, statusText |-> "OK", parses |-> TRUE,
     isArray |-> FALSE, items |-> <<>>] }
  \cup
  { [kind |-> "response", status |-> 200, statusText |-> "OK", parses |-> TRUE,
     isArray |-> TRUE, items |-> b] :
       b \in {<<>>, <<Entry1>>, <<Entry1, Entry2>>, <<NullEntry>>} }

\* no settled fetch
NoResult == [kind |-> "none", status |-> 0, statusText |-> "", parses |-> FALSE,
             isArray |-> FALSE, items |-> <<>>]

\* Response.ok
ResponseOk(r) == r.status >= 200 /\ r.status <= 299

\* the envelope fetchDictionaryDefinition returns (none before it returns)
NoDefinition == [success |-> FALSE, data |-> NoData, error |-> "", word |-> <<>>]
Success(data, word) == [success |-> TRUE, data |-> data, error |-> "", word |-> word]
Failure(error, word) == [success |-> FALSE, data |-> NoData, error |-> error, word |-> word]

\* ThrownMessage with a body that fails to parse read as null instead of
\* thrown
ThrownMessageParseIgnored(r) ==
  IF r.kind = "networkError" THEN "Failed to fetch"
  ELSE IF ~(r.status >= 200 /\ r.status <= 299)
       THEN (IF r.status = 404 THEN "API returned 404: Not Found"
             ELSE "API returned 500: Internal Server Error")
  ELSE ""

\* the message of the Error thrown inside the try of fetchDictionaryDefinition
\* for a settled fetch ("" when nothing is thrown)
ThrownMessage(r) ==
  IF r.kind = "networkError" THEN "Failed to fetch"
  ELSE IF ~ResponseOk(r)
       THEN (IF r.status = 404 THEN "API returned 404: Not Found"
             ELSE "API returned 500: Internal Server Error")
  ELSE IF ~r.parses THEN "Unexpected token"
  ELSE ""

\* the catch block returning error.message as the reason
CatchEnvelopeMessage(message, word) ==
  Failure(IF message = "API timeout" THEN "Request timed out" ELSE message, word)

\* the catch block of fetchDictionaryDefinition
CatchEnvelope(message, word) ==
  Failure(IF message = "API timeout" THEN "Request timed out"
          ELSE "Failed to fetch definition", word)

\* the envelope with result[result.length - 1] for result[0]
ResponseEnvelopeLast(r, word) ==
  IF ThrownMessage(r) # "" THEN CatchEnvelope(ThrownMessage(r), word)
  ELSE IF r.isArray /\ Len(r.items) > 0 THEN Success(r.items[Len(r.items)], word)
  ELSE Failure("No definition found", word)

\* the envelope when the request settles first
ResponseEnvelope(r, word) ==
  IF ThrownMessage(r) # "" THEN CatchEnvelope(ThrownMessage(r), word)
  ELSE IF r.isArray /\ Len(r.items) > 0 THEN Success(r.items[1], word)
  ELSE Failure("No definition found", word)

\* the envelope when the timer settles first
TimeoutEnvelope(word) == CatchEnvelope("API timeout", word)

\* ----------------------------------------------------------------- state
VARIABLES
  extensionEnabled,   \* chrome.storage.local: "true", "false" or "unset"
  panel,              \* the toggle panel (popup.js) and its calls in flight
  installed,          \* onInstalled events so far: "no", "yes", "updated"
  page,               \* the window and the document of the active page
  pageSelection,      \* the selection of the active page
  csLoaded,           \* the content script's listener exists in the page
  currentPopup,       \* content.js:7
  currentSelection,   \* content.js:8
  isPopupVisible,     \* content.js:9
  domPopups,          \* ids of the popup elements attached to document.body
  keydownListeners,   \* ids of the popups whose escHandler is on the document
  clickListeners,     \* ids of the popups whose clickHandler is on the document
  lk                  \* one record per invocation of the command handler

vars == <<extensionEnabled, panel, installed, page, pageSelection, csLoaded, currentPopup,
          currentSelection, isPopupVisible, domPopups, keydownListeners,
          clickListeners, lk>>

panelVars == <<extensionEnabled, panel, installed>>
contentVars == <<currentPopup, currentSelection, isPopupVisible, domPopups,
                 keydownListeners, clickListeners>>

\* the invocations of the command handler
Lookups == DOMAIN lk

\* --------------------------------------------------------- toggle panel
\* the panel is closed: no document, no toggle switch, no listener; pending
\* holds the calls of handleToggleClick that stand at an await, each with its
\* newState and with the state the switch showed when it was clicked
NoPanel == [open |-> FALSE, active |-> FALSE, listening |-> FALSE, pc |-> "closed",
            pending |-> <<>>]

\* the value chrome.storage.local holds for a boolean
ToFlag(b) == IF b THEN "true" ELSE "false"

\* s without its i-th element
Without(s, i) == SubSeq(s, 1, i - 1) \o SubSeq(s, i + 1, Len(s))

\* the user opens the panel of the installed extension: DOMContentLoaded,
\* initializePopup up to its await
OpenPanel ==
  /\ installed # "no"
  /\ ~panel.open
  /\ panel' = [panel EXCEPT !.open = TRUE, !.pc = "init"]
  /\ UNCHANGED <<extensionEnabled, installed, page, pageSelection, csLoaded,
                 contentVars, lk>>

\* initializePopup after its await: the switch shows the flag and listens, or
\* (catch) shows enabled
initializePopup ==
  /\ panel.open
  /\ panel.pc = "init"
  /\ \E rejects \in BOOLEAN :
       panel' = IF rejects THEN [panel EXCEPT !.pc = "ready", !.active = TRUE]
                ELSE [panel EXCEPT !.pc = "ready", !.listening = TRUE,
                                   !.active = (extensionEnabled # "false")]
  /\ UNCHANGED <<extensionEnabled, installed, page, pageSelection, csLoaded,
                 contentVars, lk>>

\* handleToggleClick up to its await: the switch flips and
\* chrome.storage.local.set is called with the new state
handleToggleClick ==
  /\ panel.open
  /\ panel.listening
  /\ Len(panel.pending) < MaxPending
  /\ panel' = [panel EXCEPT !.active = ~panel.active,
                            !.pending = Append(@, [stage |-> "set",
                                                   newState |-> ~panel.active,
                                                   shown |-> panel.active])]
  /\ UNCHANGED <<extensionEnabled, installed, page, pageSelection, csLoaded,
                 contentVars, lk>>

\* the i-th pending chrome.storage.local.set settles: the flag is written, or
\* the call rejects and the catch block reads the flag (if the panel is
\* still open to run it)
SetSettles(i) ==
  /\ panel.pending[i].stage = "set"
  /\ \E rejects \in BOOLEAN :
       IF rejects
       THEN /\ panel' = [panel EXCEPT !.pending =
                           IF panel.open THEN [@ EXCEPT ![i].stage = "revert"]
                           ELSE Without(@, i)]
            /\ UNCHANGED extensionEnabled
       ELSE /\ panel' = [panel EXCEPT !.pending = Without(@, i)]
            /\ extensionEnabled' = ToFlag(panel.pending[i].newState)
  /\ UNCHANGED <<installed, page, pageSelection, csLoaded, contentVars, lk>>

\* the read of the catch block settles: the switch shows the flag again
RevertGet(i) ==
  /\ panel.pending[i].stage = "revert"
  /\ \E rejects \in BOOLEAN :
       panel' = [panel EXCEPT !.pending = Without(@, i),
                             !.active = IF rejects THEN @
                                        ELSE (extensionEnabled # "false")]
  /\ UNCHANGED <<extensionEnabled, installed, page, pageSelection, csLoaded,
                 contentVars, lk>>

\* the panel closes: its document and the handlers standing in a catch block
\* are gone, the calls of chrome.storage.local.set already made are not
ClosePanel ==
  /\ panel.open
  /\ panel' = [NoPanel EXCEPT !.pending =
                 SelectSeq(panel.pending, LAMBDA e : e.stage = "set")]
  /\ UNCHANGED <<extensionEnabled, installed, page, pageSelection, csLoaded,
                 contentVars, lk>>

\* chrome.runtime.onInstalled fires, for the installation and then for an
\* update of the extension or of the browser: the listener sets the flag
OnInstalled ==
  /\ installed \in {"no", "yes"}
  /\ installed' = IF installed = "no" THEN "yes" ELSE "updated"
  /\ \E rejects \in BOOLEAN :
       extensionEnabled' = IF rejects THEN extensionEnabled ELSE "true"
  /\ UNCHANGED <<panel, page, pageSelection, csLoaded, contentVars, lk>>

\* ------------------------------------------------------- content script
NoPopup == [id |-> 0, kind |-> "none", text |-> <<>>, body |-> <<>>,
            theme |-> NoTheme, anchor |-> NoRect, top |-> 0, left |-> 0,
            positioned |-> "none",
            closeListener |-> FALSE, escHandler |-> FALSE, clickHandler |-> FALSE]

\* the content script's globals and the part of the document it touches;
\* threw: the code run on it has thrown; responses: the sendResponse calls of
\* the listener run on it
CS == [currentPopup |-> currentPopup, currentSelection |-> currentSelection,
       isPopupVisible |-> isPopupVisible, dom |-> domPopups,
       keydown |-> keydownListeners, click |-> clickListeners, threw |-> FALSE,
       responses |-> <<>>]

SetCS(s) ==
  /\ currentPopup' = s.currentPopup
  /\ currentSelection' = s.currentSelection
  /\ isPopupVisible' = s.isPopupVisible
  /\ domPopups' = s.dom
  /\ keydownListeners' = s.keydown
  /\ clickListeners' = s.click

\* identity of the element document.createElement returns
NewId(s) ==
  LET used == s.dom \cup s.keydown \cup s.click \cup {s.currentPopup.id}
  IN CHOOSE n \in 1..(Cardinality(used) + 1) : n \notin used

\* removeCurrentPopup without the test of line 440: reading _escHandler of
\* null throws
removeCurrentPopupUnguarded(s) ==
  LET p == s.currentPopup
  IN IF p.id # 0
     THEN [s EXCEPT !.keydown = IF p.escHandler THEN @ \ {p.id} ELSE @,
                    !.click = IF p.clickHandler THEN @ \ {p.id} ELSE @,
                    !.dom = @ \ {p.id},
                    !.currentPopup = NoPopup,
                    !.currentSelection = NoSelection,
                    !.isPopupVisible = FALSE]
     ELSE [s EXCEPT !.threw = TRUE]

\* removeCurrentPopup without the removeChild of lines 450-452
removeCurrentPopupLeavesNode(s) ==
  LET p == s.currentPopup
  IN IF p.id # 0
     THEN [s EXCEPT !.keydown = IF p.escHandler THEN @ \ {p.id} ELSE @,
                    !.click = IF p.clickHandler THEN @ \ {p.id} ELSE @,
                    !.currentPopup = NoPopup,
                    !.currentSelection = NoSelection,
                    !.isPopupVisible = FALSE]
     ELSE s

removeCurrentPopup(s) ==
  LET p == s.currentPopup
  IN IF p.id # 0
     THEN [s EXCEPT !.keydown = IF p.escHandler THEN @ \ {p.id} ELSE @,
                    !.click = IF p.clickHandler THEN @ \ {p.id} ELSE @,
                    !.dom = @ \ {p.id},
                    !.currentPopup = NoPopup,
                    !.currentSelection = NoSelection,
                    !.isPopupVisible = FALSE]
     ELSE s

\* createPopupElement, assigned to currentPopup, with its innerHTML
createPopup(s, kind, text) ==
  [s EXCEPT !.currentPopup = [NoPopup EXCEPT !.id = NewId(s), !.kind = kind,
                                             !.text = text,
                                             !.theme = detectThemeAndContrast(page)]]

\* an element of the HTML formatDefinition returns: its tag or class, the
\* number and the text interpolated into it
Html(tag, n, text) == [tag |-> tag, n |-> n, text |-> text]

\* formatDefinition numbering the definitions it keeps from 0
formatMeaningFromZero(meaning, index) ==
  (IF index > 1 THEN << Html("hr", 0, "") >> ELSE <<>>)
  \o << Html("meaning-item", 0, "") >>
  \o (IF meaning.partOfSpeech # ""
      THEN << Html("part-of-speech", 0, meaning.partOfSpeech) >> ELSE <<>>)
  \o (IF Len(meaning.definitions) > 0
      THEN << Html("definitions", 0, "") >>
           \o [defIndex \in 1..Min(3, Len(meaning.definitions)) |->
                 Html("definition-item", defIndex - 1, meaning.definitions[defIndex])]
           \o << Html("/definitions", 0, "") >>
      ELSE <<>>)
  \o << Html("/meaning-item", 0, "") >>

\* the body of the forEach over data.meanings; index counts from 1 here
formatMeaning(meaning, index) ==
  (IF index > 1 THEN << Html("hr", 0, "") >> ELSE <<>>)
  \o << Html("meaning-item", 0, "") >>
  \o (IF meaning.partOfSpeech # ""
      THEN << Html("part-of-speech", 0, meaning.partOfSpeech) >> ELSE <<>>)
  \o (IF Len(meaning.definitions) > 0
      THEN << Html("definitions", 0, "") >>
           \o [defIndex \in 1..Min(3, Len(meaning.definitions)) |->
                 Html("definition-item", defIndex, meaning.definitions[defIndex])]
           \o << Html("/definitions", 0, "") >>
      ELSE <<>>)
  \o << Html("/meaning-item", 0, "") >>

RECURSIVE formatMeanings(_, _)
formatMeanings(meanings, index) ==
  IF index > Len(meanings) THEN <<>>
  ELSE formatMeaning(meanings[index], index) \o formatMeanings(meanings, index + 1)

formatDefinition(data) ==
  IF Len(data.meanings) = 0 THEN << Html("p", 0, "No definition available") >>
  ELSE formatMeanings(data.meanings, 1)

\* positionPopup(currentPopup, currentSelection): appends the popup to the body
\* and places it at the selection's bounding box
positionPopup(s) ==
  LET rect == s.currentSelection.box
  IN [s EXCEPT !.dom = @ \cup {s.currentPopup.id},
               !.currentPopup.anchor = rect,
               !.currentPopup.top = finalTop(rect, page),
               !.currentPopup.left = finalLeft(rect, page),
               !.currentPopup.positioned =
                  IF positionAbove(rect, page) THEN "above" ELSE "below"]

setupPopupEventListeners(s) ==
  [s EXCEPT !.currentPopup.closeListener = TRUE,
            !.currentPopup.escHandler = TRUE,
            !.currentPopup.clickHandler = TRUE,
            !.keydown = @ \cup {s.currentPopup.id},
            !.click = @ \cup {s.currentPopup.id}]

\* the common tail of the three show functions: position, mark visible, listen
showPopup(s) ==
  setupPopupEventListeners([positionPopup(s) EXCEPT !.isPopupVisible = TRUE])

\* showLoadingPopup that leaves a displayed popup alone
showLoadingPopupKeepsExisting(s, sel, selectedText) ==
  IF s.isPopupVisible THEN s
  ELSE LET s1 == removeCurrentPopup(s)
       IN IF sel.rangeCount = 0 THEN s1
          ELSE showPopup(createPopup([s1 EXCEPT !.currentSelection = sel],
                                     "Loading", selectedText))

showLoadingPopup(s, sel, selectedText) ==
  LET s1 == removeCurrentPopup(s)
  IN IF sel.rangeCount = 0 THEN s1
     ELSE showPopup(createPopup([s1 EXCEPT !.currentSelection = sel],
                                "Loading", selectedText))

showErrorPopup(s, sel, error, selectedText) ==
  LET s1 == removeCurrentPopup(s)
  IN IF sel.rangeCount = 0 THEN s1
     ELSE showPopup(createPopup([s1 EXCEPT !.currentSelection = sel], "Error",
                                GOOGLE_SEARCH \o encodeURIComponent(selectedText)))

\* showDefinitionPopup calling showErrorPopup(definition.error) without the
\* selected text
showDefinitionPopupDropsText(s, sel, selectedText, definition) ==
  LET s1 == removeCurrentPopup(s)
  IN IF ~definition.success THEN showErrorPopup(s1, sel, definition.error, <<>>)
     ELSE IF sel.rangeCount = 0 THEN s1
     ELSE IF definition.data.isNull
          THEN [createPopup([s1 EXCEPT !.currentSelection = sel], "Definition", <<>>)
                  EXCEPT !.threw = TRUE]
          ELSE showPopup([createPopup([s1 EXCEPT !.currentSelection = sel],
                                      "Definition", definition.data.word)
                            EXCEPT !.currentPopup.body = formatDefinition(definition.data)])

showDefinitionPopup(s, sel, selectedText, definition) ==
  LET s1 == removeCurrentPopup(s)
  IN IF ~definition.success THEN showErrorPopup(s1, sel, definition.error, selectedText)
     ELSE IF sel.rangeCount = 0 THEN s1
     ELSE IF definition.data.isNull
          \* definition.data.word throws after currentPopup has been assigned
          THEN [createPopup([s1 EXCEPT !.currentSelection = sel], "Definition", <<>>)
                  EXCEPT !.threw = TRUE]
          ELSE showPopup([createPopup([s1 EXCEPT !.currentSelection = sel],
                                      "Definition", definition.data.word)
                            EXCEPT !.currentPopup.body = formatDefinition(definition.data)])

\* messages of the background script
Message(action, selectedText, definition, error) ==
  [action |-> action, selectedText |-> selectedText, definition |-> definition,
   error |-> error]

\* the switch on message.action inside the try of the listener
switchAction(s, sel, message) ==
  IF message.action = "showLoading" THEN showLoadingPopup(s, sel, message.selectedText)
  ELSE IF message.action = "showDefinition"
       THEN showDefinitionPopup(s, sel, message.selectedText, message.definition)
  ELSE IF message.action = "showError" THEN showErrorPopup(s, sel, message.error, <<>>)
  ELSE s

\* the listener answering only the actions it knows
onMessageSilentDefault(s, sel, message) ==
  LET s1 == switchAction(s, sel, message)
  IN IF message.action \notin {"showLoading", "showDefinition", "showError"} THEN s1
     ELSE [s1 EXCEPT !.responses = Append(@, [success |-> ~s1.threw])]

\* the onMessage listener of the content script: the switch, then
\* sendResponse({success: true}), or sendResponse({success: false, ...}) in
\* the catch
onMessage(s, sel, message) ==
  LET s1 == switchAction(s, sel, message)
  IN [s1 EXCEPT !.responses = Append(@, [success |-> ~s1.threw])]

\* ---------------------------------------------------- background script
\* line 55 as written: selectedText.substring(0, 50)
Truncate(text) == Substring(text, SELECTION_LIMIT)

\* the locals of one invocation of the onCommand listener (pc is the await it
\* stands at), the counters of the sendMessageToContentScript call in progress
\* (calls of chrome.tabs.sendMessage, calls of executeScript, milliseconds of
\* grace period waited), the delay of the timer fetchDictionaryDefinition has
\* set, what the invocation has issued so far (sent, requests, url), and
\* whether the popup of a result was on the page when its race settled
\* (overtaken)
NewLookup ==
  [pc |-> "idle", isEnabled |-> FALSE, tab |-> FALSE, selectedText |-> <<>>,
   sanitizedText |-> <<>>, definition |-> NoDefinition, action |-> "none",
   attempts |-> 0, injections |-> 0, waited |-> 0, sendError |-> "none",
   sendResult |-> "none", request |-> "none", timer |-> 0, winner |-> "none",
   result |-> NoResult, requests |-> 0, url |-> <<>>, sent |-> {}, caught |-> FALSE,
   overtaken |-> FALSE, exit |-> "none"]

\* the message sendMessageToContentScript is called with
MessageOf(r) ==
  IF r.action = "showLoading"
  THEN Message("showLoading", r.sanitizedText, NoDefinition, "")
  ELSE IF r.action = "showDefinition"
       THEN Message("showDefinition", r.sanitizedText, r.definition, "")
  ELSE Message("showError", <<>>, NoDefinition,
               "Failed to fetch definition. Please try again.")

\* the handler returns at the place exit: what it was invoked on (flag, tab,
\* selection), what it has issued (sent, requests, url, the request still in
\* flight) and what its last sendMessageToContentScript returned stay on
\* record, its other locals are gone
Return(r, exit) ==
  [NewLookup EXCEPT !.pc = "done", !.exit = exit, !.isEnabled = r.isEnabled,
                    !.tab = r.tab, !.selectedText = r.selectedText,
                    !.sent = r.sent, !.requests = r.requests, !.url = r.url,
                    !.request = r.request, !.caught = r.caught,
                    !.sendResult = r.sendResult, !.overtaken = r.overtaken]

\* the handler issuing the dictionary request without awaiting the send of
\* showLoading
StartSendFetching(r, action) ==
  [r EXCEPT !.pc = "send1", !.action = action, !.attempts = 1, !.injections = 0,
            !.waited = 0, !.sendError = "none", !.sendResult = "none",
            !.sent = @ \cup {action},
            !.requests = IF action = "showLoading" THEN @ + 1 ELSE @]

\* a call of sendMessageToContentScript(tab.id, {action, ...}), up to its
\* first chrome.tabs.sendMessage
StartSend(r, action) ==
  [r EXCEPT !.pc = "send1", !.action = action, !.attempts = 1, !.injections = 0,
            !.waited = 0, !.sendError = "none", !.sendResult = "none",
            !.sent = @ \cup {action}]

\* fetchDictionaryDefinition up to its await: the timer is set and the request
\* is issued
StartFetch(r) ==
  [r EXCEPT !.pc = "race", !.request = "pending", !.requests = @ + 1,
            !.timer = API_TIMEOUT,
            !.url = DICTIONARY_API_BASE \o encodeURIComponent(r.sanitizedText)]

\* the handler with a sendMessageToContentScript that throws where it
\* returns false
AfterSendThrows(r, result) ==
  LET r1 == [r EXCEPT !.sendResult = result, !.result = NoResult]
  IN IF result = "false" THEN [r1 EXCEPT !.pc = "catchQuery", !.caught = TRUE]
     ELSE IF r.action = "showLoading"
          THEN [r1 EXCEPT !.pc = "race", !.request = "pending", !.requests = @ + 1,
                          !.timer = API_TIMEOUT,
                          !.url = DICTIONARY_API_BASE \o encodeURIComponent(r.sanitizedText)]
     ELSE Return(r1, IF r.action = "showDefinition" THEN "completed" ELSE "failed")

\* sendMessageToContentScript returns result; the handler goes on
AfterSend(r, result) ==
  LET r1 == [r EXCEPT !.sendResult = result, !.result = NoResult]
  IN IF r.action = "showLoading" THEN StartFetch(r1)
     ELSE Return(r1, IF r.action = "showDefinition" THEN "completed" ELSE "failed")

\* fetchDictionaryDefinition returns; the handler sends the result
AfterFetch(r, definition) ==
  StartSend([r EXCEPT !.definition = definition], "showDefinition")

\* what settles Promise.race first: the timer (NoResult) or the request
Settle(r, o) ==
  IF o = NoResult
  THEN AfterFetch([r EXCEPT !.winner = "timer"], TimeoutEnvelope(r.sanitizedText))
  ELSE AfterFetch([r EXCEPT !.winner = "request", !.request = "settled", !.result = o],
                  ResponseEnvelope(o, r.sanitizedText))

\* the catch block of the handler, up to its await of tabs.query
Catch(r) == [r EXCEPT !.pc = "catchQuery", !.caught = TRUE]

\* the handler without lines 53-56: a text of any length goes on
AfterSelectionAnyLength(r, selectedText) ==
  LET r1 == [r EXCEPT !.selectedText = selectedText]
  IN IF Len(Trim(selectedText)) = 0 THEN Return(r1, "noSelection")
     ELSE LET sanitizedText == sanitizeText(selectedText)
          IN IF Len(sanitizedText) < 1 THEN Return(r1, "noText")
             ELSE StartSend([r1 EXCEPT !.sanitizedText = sanitizedText], "showLoading")

\* lines 47-70: the handler from the selected text to the first send
AfterSelection(r, selectedText) ==
  LET r1 == [r EXCEPT !.selectedText = selectedText]
  IN IF Len(Trim(selectedText)) = 0 THEN Return(r1, "noSelection")
     \* line 55 assigns to the const binding of line 43: a TypeError
     ELSE IF Len(selectedText) > SELECTION_LIMIT THEN Catch(r1)
     ELSE LET sanitizedText == sanitizeText(selectedText)
          IN IF Len(sanitizedText) < 1 THEN Return(r1, "noText")
             ELSE StartSend([r1 EXCEPT !.sanitizedText = sanitizedText], "showLoading")

\* the shortcut is pressed: the listener runs up to the read of the flag
Command(l) ==
  /\ lk[l].pc = "idle"
  /\ IF l = 1 THEN TRUE ELSE lk[l - 1].pc # "idle"
  /\ lk' = [lk EXCEPT ![l].pc = "storageGet"]
  /\ UNCHANGED <<panelVars, page, pageSelection, csLoaded, contentVars>>

\* chrome.storage.local.get settles: with the flag, or with a rejection
StorageGet(l) ==
  /\ lk[l].pc = "storageGet"
  /\ LET isEnabled == extensionEnabled # "false"
     IN \E rejects \in BOOLEAN :
          lk' = [lk EXCEPT ![l] =
                   IF rejects THEN Catch(@)
                   ELSE IF isEnabled THEN [@ EXCEPT !.isEnabled = TRUE, !.pc = "tabsQuery"]
                   ELSE Return(@, "disabled")]
  /\ UNCHANGED <<panelVars, page, pageSelection, csLoaded, contentVars>>

\* chrome.tabs.query settles: with the active tab, with no tab, or with a
\* rejection
TabsQuery(l) ==
  /\ lk[l].pc = "tabsQuery"
  /\ \E outcome \in {"tab", "noTab", "rejects"} :
       lk' = [lk EXCEPT ![l] =
                IF outcome = "rejects" THEN Catch(@)
                ELSE IF outcome = "tab" THEN [@ EXCEPT !.tab = TRUE, !.pc = "getSelectedText"]
                ELSE Return(@, "noTab")]
  /\ UNCHANGED <<panelVars, page, pageSelection, csLoaded, contentVars>>

\* getSelectedText: the injected function reads the selection, or the
\* injection fails and the result is ''
GetSelectedText(l) ==
  /\ lk[l].pc = "getSelectedText"
  /\ \E injected \in BOOLEAN :
       lk' = [lk EXCEPT ![l] =
                AfterSelection(@, IF injected THEN Trim(pageSelection.text) ELSE <<>>)]
  /\ UNCHANGED <<panelVars, page, pageSelection, csLoaded, contentVars>>

\* chrome.tabs.sendMessage resolves: the listener of the content script has
\* handled the message and answered
Deliver(l) ==
  /\ csLoaded
  /\ SetCS(onMessage(CS, pageSelection, MessageOf(lk[l])))
  /\ lk' = [lk EXCEPT ![l] = AfterSend(@, "true")]
  /\ UNCHANGED <<panelVars, page, pageSelection, csLoaded>>

\* sendMessageToContentScript injecting and resending on every error
SendFailsRetries(l) ==
  /\ lk' = [lk EXCEPT ![l].sendError = IF @ = "none" THEN "other" ELSE @,
                      ![l].injections = @ + 1, ![l].result = NoResult,
                      ![l].pc = "inject"]
  /\ UNCHANGED <<panelVars, page, pageSelection, csLoaded, contentVars>>

\* chrome.tabs.sendMessage rejects with an error that is not about a missing
\* receiving end, or (retry) with any error
SendFails(l) ==
  /\ lk' = [lk EXCEPT ![l] =
              AfterSend([@ EXCEPT !.sendError = IF @ = "none" THEN "other" ELSE @],
                        "false")]
  /\ UNCHANGED <<panelVars, page, pageSelection, csLoaded, contentVars>>

\* 'Receiving end does not exist': executeScript({files: ['content.js']})
NoReceiver(l) ==
  /\ ~csLoaded
  /\ lk' = [lk EXCEPT ![l].sendError = "noReceiver", ![l].injections = @ + 1,
                      ![l].result = NoResult, ![l].pc = "inject"]
  /\ UNCHANGED <<panelVars, page, pageSelection, csLoaded, contentVars>>

\* the first chrome.tabs.sendMessage of sendMessageToContentScript settles
Send1(l) ==
  /\ lk[l].pc = "send1"
  /\ (SendFails(l) \/ NoReceiver(l) \/ Deliver(l))

\* executeScript settles: the script is in the page and the grace period
\* starts, or the injection is refused
Inject(l) ==
  /\ lk[l].pc = "inject"
  /\ \/ /\ csLoaded' = TRUE
        /\ lk' = [lk EXCEPT ![l].pc = "wait"]
     \/ /\ lk' = [lk EXCEPT ![l] = AfterSend(@, "false")]
        /\ UNCHANGED csLoaded
  /\ UNCHANGED <<panelVars, page, pageSelection, contentVars>>

\* the grace period ends: chrome.tabs.sendMessage is called again
Wait(l) ==
  /\ lk[l].pc = "wait"
  /\ lk' = [lk EXCEPT ![l].waited = INJECT_WAIT, ![l].attempts = @ + 1, ![l].pc = "send2"]
  /\ UNCHANGED <<panelVars, page, pageSelection, csLoaded, contentVars>>

\* the resend settles
Send2(l) ==
  /\ lk[l].pc = "send2"
  /\ (SendFails(l) \/ Deliver(l))

\* a definition or error popup is on the page
ResultDisplayed ==
  /\ currentPopup.id \in domPopups
  /\ currentPopup.kind \in {"Definition", "Error"}

\* Promise.race settles with the request
RequestSettles(l) ==
  /\ lk[l].pc = "race"
  /\ \E o \in FetchOutcomes :
       lk' = [lk EXCEPT ![l] = Settle([@ EXCEPT !.overtaken = ResultDisplayed], o)]
  /\ UNCHANGED <<panelVars, page, pageSelection, csLoaded, contentVars>>

\* Promise.race settles with the timer of API_TIMEOUT ms; the request stays
\* in flight
TimerFires(l) ==
  /\ lk[l].pc = "race"
  /\ lk' = [lk EXCEPT ![l] = Settle([@ EXCEPT !.overtaken = ResultDisplayed], NoResult)]
  /\ UNCHANGED <<panelVars, page, pageSelection, csLoaded, contentVars>>

\* a late response that is processed like one in time
LateResponseOverwrites(l) ==
  /\ lk[l].pc # "race"
  /\ lk[l].request = "pending"
  /\ \E o \in FetchOutcomes :
       lk' = [lk EXCEPT ![l].request = "settled",
                        ![l].definition = ResponseEnvelope(o, lk[l].sanitizedText)]
  /\ UNCHANGED <<panelVars, page, pageSelection, csLoaded, contentVars>>

\* the request settles after the timer has won the race (the timer that
\* fires after the request has won changes nothing either and is left out)
LateResponse(l) ==
  /\ lk[l].pc # "race"
  /\ lk[l].request = "pending"
  /\ \E o \in FetchOutcomes : lk' = [lk EXCEPT ![l].request = "settled"]
  /\ UNCHANGED <<panelVars, page, pageSelection, csLoaded, contentVars>>

\* the catch block without its inner try: a rejection of its tabs.query
\* leaves the handler as a rejection
CatchQueryUnguarded(l) ==
  /\ lk[l].pc = "catchQuery"
  /\ \E outcome \in {"tab", "noTab", "rejects"} :
       lk' = [lk EXCEPT ![l] =
                IF outcome = "tab" THEN StartSend(@, "showError")
                ELSE IF outcome = "noTab" THEN Return(@, "failed")
                ELSE Return(@, "rejected")]
  /\ UNCHANGED <<panelVars, page, pageSelection, csLoaded, contentVars>>

\* the tabs.query of the catch block settles: with the active tab, and the
\* best-effort showError is sent; with no tab; or with a rejection, which the
\* inner catch swallows
CatchQuery(l) ==
  /\ lk[l].pc = "catchQuery"
  /\ \E outcome \in {"tab", "noTab", "rejects"} :
       lk' = [lk EXCEPT ![l] =
                IF outcome = "tab" THEN StartSend(@, "showError")
                ELSE Return(@, "failed")]
  /\ UNCHANGED <<panelVars, page, pageSelection, csLoaded, contentVars>>

\* ------------------------------------------------------------ the user
ChangeSelection ==
  /\ pageSelection' \in PageSelections \ {pageSelection}
  /\ UNCHANGED <<panelVars, page, csLoaded, contentVars, lk>>

\* click on the close button of the current popup: the button's listener,
\* then the document's click listeners (the target is inside the popup)
ClickClose ==
  /\ currentPopup.id \in domPopups
  /\ currentPopup.closeListener
  /\ SetCS(removeCurrentPopup(CS))
  /\ UNCHANGED <<panelVars, page, pageSelection, csLoaded, lk>>

\* a clickHandler without the popup.contains(event.target) test
ClickHandlerFiresAnywhere(target) ==
  isPopupVisible /\ clickListeners # {}

\* a click on target: 0 is outside every popup, n is inside popup n
ClickHandlerFires(target) ==
  isPopupVisible /\ \E h \in clickListeners : h # target

Click(target) ==
  /\ SetCS(IF ClickHandlerFires(target) THEN removeCurrentPopup(CS) ELSE CS)
  /\ UNCHANGED <<panelVars, page, pageSelection, csLoaded, lk>>

EscHandlerFires == isPopupVisible /\ keydownListeners # {}

Escape ==
  /\ SetCS(IF EscHandlerFires THEN removeCurrentPopup(CS) ELSE CS)
  /\ UNCHANGED <<panelVars, page, pageSelection, csLoaded, lk>>

BeforeUnload ==
  /\ SetCS(removeCurrentPopup(CS))
  /\ UNCHANGED <<panelVars, page, pageSelection, csLoaded, lk>>

\* ------------------------------------------------------- specification
Init ==
  /\ extensionEnabled \in {"true", "false", "unset"}
  /\ panel = NoPanel
  /\ installed = "yes"
  /\ page = DefaultPage
  /\ pageSelection \in PageSelections
  /\ csLoaded \in BOOLEAN
  /\ currentPopup = NoPopup
  /\ currentSelection = NoSelection
  /\ isPopupVisible = FALSE
  /\ domPopups = {}
  /\ keydownListeners = {}
  /\ clickListeners = {}
  /\ lk = [l \in 1..MaxLookups |-> NewLookup]

Next ==
  \/ \E l \in Lookups :
       \/ Command(l) \/ StorageGet(l) \/ TabsQuery(l) \/ GetSelectedText(l)
       \/ Send1(l) \/ Inject(l) \/ Wait(l) \/ Send2(l)
       \/ RequestSettles(l) \/ TimerFires(l) \/ LateResponse(l) \/ CatchQuery(l)
  \/ ChangeSelection
  \/ ClickClose
  \/ \E target \in {0} \cup domPopups : Click(target)
  \/ Escape
  \/ BeforeUnload

Spec == Init /\ [][Next]_vars

\* two presses of the shortcut, the second possibly before the handler of
\* the first has returned, with the extension enabled
InitOverlap ==
  /\ extensionEnabled = "true"
  /\ panel = NoPanel
  /\ installed = "yes"
  /\ page = DefaultPage
  /\ pageSelection \in PageSelections
  /\ csLoaded \in BOOLEAN
  /\ currentPopup = NoPopup
  /\ currentSelection = NoSelection
  /\ isPopupVisible = FALSE
  /\ domPopups = {}
  /\ keydownListeners = {}
  /\ clickListeners = {}
  /\ lk = <<NewLookup, NewLookup>>

SpecOverlap == InitOverlap /\ [][Next]_vars

\* ------------------------------------ the flag, its writers and its reader
\* the extension is being installed; the shortcut is pressed once, at any time
InitPanel ==
  /\ extensionEnabled = "unset"
  /\ panel = NoPanel
  /\ installed = "no"
  /\ page = DefaultPage
  /\ pageSelection \in PageSelections
  /\ csLoaded \in BOOLEAN
  /\ currentPopup = NoPopup
  /\ currentSelection = NoSelection
  /\ isPopupVisible = FALSE
  /\ domPopups = {}
  /\ keydownListeners = {}
  /\ clickListeners = {}
  /\ lk = <<NewLookup>>

NextPanel ==
  \/ OnInstalled
  \/ OpenPanel
  \/ initializePopup
  \/ handleToggleClick
  \/ \E i \in DOMAIN panel.pending : SetSettles(i) \/ RevertGet(i)
  \/ ClosePanel
  \/ Next

SpecPanel == InitPanel /\ [][NextPanel]_vars

\* ------------------------------------------- a selection of one character
\* the shortcut is pressed on a selection of a single character
InitSingle ==
  /\ extensionEnabled = "true"
  /\ panel = NoPanel
  /\ installed = "yes"
  /\ page = DefaultPage
  /\ pageSelection \in { [rangeCount |-> 1, text |-> <<c>>, box |-> Rect(30, 40, 20, 20)] :
                           c \in {"a", "z"} }
  /\ csLoaded \in BOOLEAN
  /\ currentPopup = NoPopup
  /\ currentSelection = NoSelection
  /\ isPopupVisible = FALSE
  /\ domPopups = {}
  /\ keydownListeners = {}
  /\ clickListeners = {}
  /\ lk = <<NewLookup>>

SpecSingle == InitSingle /\ [][Next]_vars

\* ------------------------------------------- a lookup whose awaits settle
\* one press of the shortcut with the extension enabled
InitLive ==
  /\ extensionEnabled = "true"
  /\ panel = NoPanel
  /\ installed = "yes"
  /\ page = DefaultPage
  /\ pageSelection \in PageSelections
  /\ csLoaded \in BOOLEAN
  /\ currentPopup = NoPopup
  /\ currentSelection = NoSelection
  /\ isPopupVisible = FALSE
  /\ domPopups = {}
  /\ keydownListeners = {}
  /\ clickListeners = {}
  /\ lk = <<NewLookup>>

\* the promises the handler awaits while it sends settle (chrome.tabs.sendMessage
\* resolves or rejects, executeScript resolves or rejects, the setTimeout of
\* the grace period fires), and the setTimeout of API_TIMEOUT ms fires unless
\* the request has settled before; the request itself may never settle
AwaitsSettle(l) ==
  /\ WF_vars(Send1(l))
  /\ WF_vars(Inject(l))
  /\ WF_vars(Wait(l))
  /\ WF_vars(Send2(l))
  /\ WF_vars(TimerFires(l))

SpecLive == InitLive /\ [][Next]_vars /\ AwaitsSettle(1)

\* -------------------------------------------------- the toggle panel alone
\* the panel of the installed extension, with any value of the flag
InitToggle ==
  /\ extensionEnabled \in {"true", "false", "unset"}
  /\ panel = NoPanel
  /\ installed = "yes"
  /\ page = DefaultPage
  /\ pageSelection = NoSelection
  /\ csLoaded = FALSE
  /\ currentPopup = NoPopup
  /\ currentSelection = NoSelection
  /\ isPopupVisible = FALSE
  /\ domPopups = {}
  /\ keydownListeners = {}
  /\ clickListeners = {}
  /\ lk = <<>>

NextToggle ==
  \/ OpenPanel
  \/ initializePopup
  \/ handleToggleClick
  \/ \E i \in DOMAIN panel.pending : SetSettles(i) \/ RevertGet(i)
  \/ ClosePanel

SpecToggle == InitToggle /\ [][NextToggle]_vars

\* ---------------------------------------- the content script on its own
\* texts the background script sends as selectedText
SentTexts == {sanitizeText(Phrase), <<"z">>}

\* the messages the listener of the content script can be called with: the
\* three actions of the background script, and an action it does not know
Messages ==
  { Message("showLoading", t, NoDefinition, "") : t \in SentTexts }
  \cup
  { Message("showDefinition", t, d, "") :
      t \in SentTexts,
      d \in { Success(Entry1, <<"z">>), Success(NullEntry, <<"z">>),
              Failure("No definition found", <<"z">>),
              Failure("Request timed out", <<"z">>) } }
  \cup
  { Message("showError", <<>>, NoDefinition,
            "Failed to fetch definition. Please try again."),
    Message("ping", <<>>, NoDefinition, "") }

\* the listener is called with message and answers
Receive(message) ==
  /\ SetCS(onMessage(CS, pageSelection, message))
  /\ UNCHANGED <<panelVars, page, pageSelection, csLoaded, lk>>

InitContent ==
  /\ extensionEnabled = "true"
  /\ panel = NoPanel
  /\ installed = "yes"
  /\ page = DefaultPage
  /\ pageSelection \in PageSelections
  /\ csLoaded = TRUE
  /\ currentPopup = NoPopup
  /\ currentSelection = NoSelection
  /\ isPopupVisible = FALSE
  /\ domPopups = {}
  /\ keydownListeners = {}
  /\ clickListeners = {}
  /\ lk = <<>>

NextContent ==
  \/ \E message \in Messages : Receive(message)
  \/ ChangeSelection
  \/ ClickClose
  \/ \E target \in {0} \cup domPopups : Click(target)
  \/ Escape
  \/ BeforeUnload

SpecContent == InitContent /\ [][NextContent]_vars

\* ------------------------------------------- the sanitizer on any text
\* characters of the selected texts: a word character, the two kinds of
\* white space, the characters of an entity, a kept and a dropped punctuation
TextChars == {"a", " ", "\t", "&", ";", "#", "!"}

\* every text of at most MaxLen characters
Texts == UNION { [1..n -> TextChars] : n \in 0..MaxLen }

\* the handler is about to read the selection of the page, which is any text
InitSanitize ==
  /\ extensionEnabled = "true"
  /\ panel = NoPanel
  /\ installed = "yes"
  /\ page = DefaultPage
  /\ pageSelection \in { [rangeCount |-> 1, text |-> t, box |-> Rect(30, 40, 20, 20)] : t \in Texts }
  /\ csLoaded = TRUE
  /\ currentPopup = NoPopup
  /\ currentSelection = NoSelection
  /\ isPopupVisible = FALSE
  /\ domPopups = {}
  /\ keydownListeners = {}
  /\ clickListeners = {}
  /\ lk = << [NewLookup EXCEPT !.pc = "getSelectedText", !.isEnabled = TRUE,
                               !.tab = TRUE] >>

\* the selection is read, checked and sanitized
NextSanitize == \E l \in Lookups : GetSelectedText(l)

SpecSanitize == InitSanitize /\ [][NextSanitize]_vars

\* --------------------------------------- the rendering of any definition
\* meanings with no, one or another part of speech and 0..MaxDefinitions
\* definitions
MeaningShapes ==
  { Meaning(partOfSpeech, Definitions(k)) :
      partOfSpeech \in {"", "noun", "verb"}, k \in 0..MaxDefinitions }

\* entries of 0..MaxMeanings meanings
FormatEntries ==
  { [isNull |-> FALSE, word |-> <<"z">>, meanings |-> m] :
      m \in UNION { [1..n -> MeaningShapes] : n \in 0..MaxMeanings } }

\* fetchDictionaryDefinition has returned an entry and the handler is about
\* to send it to the content script
InitFormat ==
  /\ extensionEnabled = "true"
  /\ panel = NoPanel
  /\ installed = "yes"
  /\ page = DefaultPage
  /\ pageSelection = [rangeCount |-> 1, text |-> <<"z">>, box |-> Rect(30, 40, 20, 20)]
  /\ csLoaded = TRUE
  /\ currentPopup = NoPopup
  /\ currentSelection = NoSelection
  /\ isPopupVisible = FALSE
  /\ domPopups = {}
  /\ keydownListeners = {}
  /\ clickListeners = {}
  /\ \E data \in FormatEntries :
       lk = << AfterFetch([NewLookup EXCEPT !.isEnabled = TRUE, !.tab = TRUE,
                                           !.selectedText = <<"z">>,
                                           !.sanitizedText = <<"z">>,
                                           !.sent = {"showLoading"},
                                           !.requests = 1, !.request = "settled",
                                           !.winner = "request",
                                           !.timer = API_TIMEOUT,
                                           !.url = DICTIONARY_API_BASE \o <<"z">>],
                          Success(data, <<"z">>)) >>

\* the content script receives the entry and renders it
NextFormat == \E l \in Lookups : lk[l].pc = "send1" /\ Deliver(l)

SpecFormat == InitFormat /\ [][NextFormat]_vars

\* ------------------------------------- the placement of a popup on any page
\* windows of two widths, scrolled or not in either direction, and popups of
\* three heights and two widths
PositionPages ==
  { [DefaultPage EXCEPT !.innerWidth = w, !.scrollTop = st, !.scrollLeft = sl,
                        !.popupHeight = ph, !.popupWidth = pw] :
      w \in {40, 80}, st \in {0, 30}, sl \in {0, 10}, ph \in {5, 20, 50},
      pw \in {20, 40} }

\* bounding boxes of a selection of one line, empty or not, from the top to
\* the bottom and from the left to the right of the window
PositionRects ==
  { Rect(top, top + 10, left, width) :
      top \in {0, 10, 30, 50}, left \in {0, 20, 60}, width \in {0, 20} }

InitPosition ==
  /\ extensionEnabled = "true"
  /\ panel = NoPanel
  /\ installed = "yes"
  /\ page \in PositionPages
  /\ pageSelection \in { [rangeCount |-> 1, text |-> <<"z">>, box |-> rect] :
                           rect \in PositionRects }
  /\ csLoaded = TRUE
  /\ currentPopup = NoPopup
  /\ currentSelection = NoSelection
  /\ isPopupVisible = FALSE
  /\ domPopups = {}
  /\ keydownListeners = {}
  /\ clickListeners = {}
  /\ lk = <<>>

\* the content script shows a popup of any kind
NextPosition == \E message \in Messages : Receive(message)

SpecPosition == InitPosition /\ [][NextPosition]_vars

\* -------------------------------------------- the theme of any page
\* colour components: black, the near black of line 233, either side of the
\* threshold of line 229, and white
Levels == {0, 20, 127, 128, 255}

\* pages of any opaque background colour, or one that is not opaque, with or
\* without the class dark on the body and on the root element
ThemePages ==
  { [DefaultPage EXCEPT !.backgroundColor = bg, !.bodyDark = body, !.rootDark = root] :
      bg \in { RgbString(r, g, b) : r \in Levels, g \in Levels, b \in Levels }
               \cup {Transparent, Translucent, ColorFunction},
      body \in BOOLEAN, root \in BOOLEAN }

InitTheme ==
  /\ extensionEnabled = "true"
  /\ panel = NoPanel
  /\ installed = "yes"
  /\ page \in ThemePages
  /\ pageSelection = [rangeCount |-> 1, text |-> <<"z">>, box |-> Rect(30, 40, 20, 20)]
  /\ csLoaded = TRUE
  /\ currentPopup = NoPopup
  /\ currentSelection = NoSelection
  /\ isPopupVisible = FALSE
  /\ domPopups = {}
  /\ keydownListeners = {}
  /\ clickListeners = {}
  /\ lk = <<>>

\* the content script creates a popup of any kind
NextTheme == \E message \in Messages : Receive(message)

SpecTheme == InitTheme /\ [][NextTheme]_vars

\* ================================================================ claims
\* the handler of r has read the selection of the page
PastSelection(r) ==
  r.tab /\ r.pc \notin {"idle", "storageGet", "tabsQuery", "getSelectedText"}

\* C1: after any sequence of showLoading, showDefinition and showError
\* messages, interleaved with dismissals, the page holds zero or one popup
\* element, and the element it holds is the one currentPopup refers to, which
\* the next show handler removes before it creates another.
AtMostOnePopup ==
  /\ Cardinality(domPopups) <= 1
  /\ domPopups \subseteq {currentPopup.id}

\* a definition popup is on the page
C1Witness ==
  /\ domPopups = {currentPopup.id}
  /\ currentPopup.kind = "Definition"
  /\ isPopupVisible

\* C2: for a selection longer than 50 characters the lookup goes on with its
\* first 50 characters: the sanitized prefix is the text of the showLoading
\* message and of the dictionary request.
LongSelectionUsesPrefix ==
  \A l \in Lookups :
    LET r == lk[l]
        prefix == sanitizeText(Truncate(r.selectedText))
    IN (Len(r.selectedText) > SELECTION_LIMIT /\ prefix # <<>>)
       => /\ ~r.caught
          /\ "showLoading" \in r.sent
          /\ r.pc # "done" => r.sanitizedText = prefix
          /\ r.requests > 0 => r.url = DICTIONARY_API_BASE \o encodeURIComponent(prefix)

\* C3: a lookup whose flag is off, whose selection is empty or whose
\* sanitized text is empty sends no message and issues no request.
SilentAbort ==
  \A l \in Lookups :
    LET r == lk[l]
        guardFails ==
          \/ r.exit = "disabled"
          \/ PastSelection(r) /\ Trim(r.selectedText) = <<>>
          \/ PastSelection(r) /\ sanitizeText(Truncate(r.selectedText)) = <<>>
    IN guardFails => r.sent = {} /\ r.requests = 0

\* C4: a response that settles first with a JSON array of one or more
\* elements gives a success envelope with the first element and the
\* looked-up text; an empty array or a non-array gives the failure
\* "No definition found".
ResponseDecidesEnvelope ==
  \A l \in Lookups :
    LET r == lk[l]
        o == r.result
    IN (r.winner = "request" /\ o.kind = "response" /\ ResponseOk(o) /\ o.parses)
       => IF o.isArray /\ Len(o.items) >= 1
          THEN r.definition = Success(Head(o.items), r.sanitizedText)
          ELSE r.definition = Failure("No definition found", r.sanitizedText)

\* an array of two entries has been answered and the envelope holds the first
C4Witness ==
  \E l \in Lookups :
    /\ lk[l].winner = "request"
    /\ lk[l].result.items = <<Entry1, Entry2>>
    /\ lk[l].definition = Success(Entry1, lk[l].sanitizedText)
    /\ lk[l].action = "showDefinition"

\* C5 as stated: a non-2xx response that settles first gives a failure whose
\* reason is "<status> <statusText>".
ReasonIsStatusLine ==
  \A l \in Lookups :
    LET r == lk[l]
        o == r.result
        statusLine == IF o.status = 404 THEN "404 Not Found"
                      ELSE "500 Internal Server Error"
    IN (r.winner = "request" /\ o.kind = "response" /\ ~ResponseOk(o))
       => r.definition = Failure(statusLine, r.sanitizedText)

\* C5: a non-2xx response that settles first gives the failure
\* "Failed to fetch definition" for the looked-up text; the status and the
\* status text are in the thrown error's message only.
ReasonIsGeneric ==
  \A l \in Lookups :
    LET r == lk[l]
        o == r.result
    IN (r.winner = "request" /\ o.kind = "response" /\ ~ResponseOk(o))
       => /\ r.definition = Failure("Failed to fetch definition", r.sanitizedText)
          /\ ThrownMessage(o) \in {"API returned 404: Not Found",
                                   "API returned 500: Internal Server Error"}

\* a 404 has been answered and turned into the envelope
C5Witness ==
  \E l \in Lookups :
    /\ lk[l].winner = "request"
    /\ lk[l].result.status = 404
    /\ lk[l].definition.error = "Failed to fetch definition"
    /\ lk[l].action = "showDefinition"

\* C6: the request is raced against a timer of 5000 ms; when the timer wins
\* the envelope is the failure "Request timed out", one request and the two
\* messages have been issued, and a response that arrives afterwards changes
\* nothing but the request's own state.
TimerDecidesEnvelope ==
  /\ [](\A l \in Lookups :
          LET r == lk[l]
          IN r.winner = "timer"
             => /\ r.timer = API_TIMEOUT
                /\ r.definition = Failure("Request timed out", r.sanitizedText)
                /\ r.action = "showDefinition"
                /\ r.sent = {"showLoading", "showDefinition"}
                /\ r.requests = 1)
  /\ [][\A l \in Lookups :
          (lk[l].pc # "race" /\ lk[l].request = "pending" /\ lk'[l].request = "settled")
          => /\ lk'[l] = [lk[l] EXCEPT !.request = "settled"]
             /\ UNCHANGED contentVars]_vars

\* the timer has won, the response has arrived after it, and the handler is
\* still sending the result
C6Witness ==
  \E l \in Lookups :
    /\ lk[l].winner = "timer"
    /\ lk[l].request = "settled"
    /\ lk[l].pc \in {"send1", "send2"}

\* C7: a network failure or a JSON parse failure gives the failure
\* "Failed to fetch definition"; fetchDictionaryDefinition never rejects:
\* the handler never enters its catch block after a request, and the
\* envelope it sends carries the looked-up text.
ThrownErrorsAreGeneric ==
  \A l \in Lookups :
    LET r == lk[l]
        o == r.result
    IN /\ (r.winner = "request"
           /\ (o.kind = "networkError" \/ (ResponseOk(o) /\ ~o.parses)))
          => r.definition = Failure("Failed to fetch definition", r.sanitizedText)
       /\ r.requests >= 1 => ~r.caught
       /\ r.action = "showDefinition"
          => /\ r.definition.word = r.sanitizedText
             /\ r.definition.success
                \/ r.definition.error \in {"No definition found", "Request timed out",
                                           "Failed to fetch definition"}

\* a 200 whose body does not parse has been turned into the envelope
C7Witness ==
  \E l \in Lookups :
    /\ lk[l].winner = "request"
    /\ lk[l].result.status = 200
    /\ ~lk[l].result.parses
    /\ lk[l].definition = Failure("Failed to fetch definition", lk[l].sanitizedText)

\* C8: a lookup that is enabled, has a non-empty selection and a non-empty
\* sanitized text issues exactly one dictionary request, and no lookup
\* issues more than one.
ExactlyOneRequest ==
  \A l \in Lookups :
    LET r == lk[l]
    IN /\ r.requests <= 1
       /\ (r.pc = "done" /\ r.isEnabled /\ PastSelection(r)
           /\ sanitizeText(Truncate(r.selectedText)) # <<>>)
          => r.requests = 1

\* C9: a message is sent directly first; only the error of a missing
\* receiving end leads to one injection, the grace period of 100 ms and one
\* resend, in this order; any other failure ends the call after one send.
SingleShotRetry ==
  \A l \in Lookups :
    LET r == lk[l]
    IN /\ r.attempts <= 2 /\ r.injections <= 1
       /\ r.pc = "send1" => r.attempts = 1 /\ r.injections = 0 /\ r.waited = 0
       /\ r.pc \in {"inject", "wait"}
          => /\ r.attempts = 1 /\ r.injections = 1 /\ r.waited = 0
             /\ r.sendError = "noReceiver"
       /\ r.pc = "send2" => r.attempts = 2
       /\ r.attempts = 2
          => /\ r.injections = 1 /\ r.waited = INJECT_WAIT
             /\ r.sendError = "noReceiver"
       /\ r.sendError = "other" => r.attempts = 1 /\ r.injections = 0

\* the resend after the injection and the grace period has been delivered
C9Witness ==
  \E l \in Lookups :
    /\ lk[l].attempts = 2
    /\ lk[l].sendResult = "true"
    /\ lk[l].pc = "race"

\* C10: when sendMessageToContentScript returns false the handler goes on as
\* after a delivery (to the request, or to its end): it does not enter its
\* catch block, sends no showError because of it, does not send again, and
\* the step that fails leaves the page as it is.
UndeliverableIsSilent ==
  /\ [](\A l \in Lookups :
          LET r == lk[l]
          IN r.sendResult = "false"
             => /\ r.pc \in {"race", "done"}
                /\ r.attempts <= 2
                /\ IF r.caught THEN r.sent = {"showError"}
                   ELSE "showError" \notin r.sent)
  /\ [][\A l \in Lookups :
          (lk[l].sendResult # "false" /\ lk'[l].sendResult = "false")
          => /\ UNCHANGED contentVars
             /\ lk'[l].sent = lk[l].sent
             /\ lk'[l].caught = lk[l].caught]_vars

\* the resend of showLoading has failed too and the handler has gone on to
\* the request
C10Witness ==
  \E l \in Lookups :
    /\ lk[l].sendResult = "false"
    /\ lk[l].attempts = 2
    /\ lk[l].pc = "race"
    /\ lk[l].requests = 1

\* the positions of a call of sendMessageToContentScript
SendPcs == {"send1", "inject", "wait", "send2"}

\* C11: an exception in the handler (a rejected storage read or tab query,
\* the TypeError of line 55) leads to the catch block, which sends showError
\* at most once and nothing else; the handler ends normally whatever becomes
\* of that send or of the catch block's own tab query.
TopLevelCatch ==
  /\ [](\A l \in Lookups :
          LET r == lk[l]
          IN r.caught
             => /\ r.pc \in {"catchQuery", "done"} \cup SendPcs
                /\ r.sent \subseteq {"showError"}
                /\ r.requests = 0
                /\ r.pc \in SendPcs => r.action = "showError"
                /\ r.pc = "done" => r.exit = "failed")
  /\ [][\A l \in Lookups :
          /\ (~lk[l].caught /\ lk'[l].caught)
             => /\ lk[l].pc \in {"storageGet", "tabsQuery", "getSelectedText"}
                /\ lk'[l].pc = "catchQuery"
          /\ ("showError" \notin lk[l].sent /\ "showError" \in lk'[l].sent)
             => lk[l].pc = "catchQuery"
          /\ (lk[l].caught /\ lk[l].pc \in SendPcs /\ lk'[l].pc \notin SendPcs)
             => lk'[l].pc = "done"]_vars

\* the storage read was rejected, showError could not be delivered, and the
\* handler has ended
C11Witness ==
  \E l \in Lookups :
    /\ lk[l].caught
    /\ ~lk[l].isEnabled
    /\ lk[l].sent = {"showError"}
    /\ lk[l].sendResult = "false"
    /\ lk[l].pc = "done"

\* a popup is displayed: currentPopup is on the page and marked visible
Displayed ==
  currentPopup.id # 0 /\ currentPopup.id \in domPopups /\ isPopupVisible

\* C12: from a displayed popup of any kind, a click on the close button, an
\* Escape keydown, a click outside the popup and the page unload each leave
\* no popup node, no keydown and no click listener, and currentPopup,
\* currentSelection and isPopupVisible cleared; a click inside the popup
\* (not on the close button) changes nothing.
DismissalClears ==
  [][Displayed
     => /\ (ClickClose \/ Click(0) \/ Escape \/ BeforeUnload)
           => /\ currentPopup' = NoPopup
              /\ currentSelection' = NoSelection
              /\ isPopupVisible' = FALSE
              /\ domPopups' = {}
              /\ keydownListeners' = {}
              /\ clickListeners' = {}
        /\ Click(currentPopup.id) => UNCHANGED contentVars]_vars

\* a loading popup is displayed with its two listeners: the state the
\* dismissals act on
C12Witness ==
  /\ Displayed
  /\ currentPopup.kind = "Loading"
  /\ currentPopup.closeListener
  /\ keydownListeners = {currentPopup.id}
  /\ clickListeners = {currentPopup.id}
  /\ ENABLED ClickClose

\* C13: after every message handler and every dismissal these four facts
\* agree: currentPopup is set, isPopupVisible is true, the popup node is on
\* the page, and exactly one keydown and one click listener are registered;
\* without a popup no listener is left.
PopupFactsAgree ==
  LET hasPopup == currentPopup.id # 0
      attached == domPopups # {}
      listening == Cardinality(keydownListeners) = 1 /\ Cardinality(clickListeners) = 1
  IN /\ hasPopup <=> isPopupVisible
     /\ isPopupVisible <=> attached
     /\ attached <=> listening
     /\ ~hasPopup => keydownListeners = {} /\ clickListeners = {}

\* C14: removeCurrentPopup without a popup changes nothing and throws
\* nothing, and called twice in a row it leaves what one call leaves.
RemoveIdempotent ==
  LET once == removeCurrentPopup(CS)
  IN /\ removeCurrentPopup(once) = once
     /\ ~once.threw
     /\ currentPopup = NoPopup => once = CS

\* an error popup is displayed, so that the first call has something to remove
C14Witness ==
  /\ Displayed
  /\ currentPopup.kind = "Error"
  /\ removeCurrentPopup(CS) # CS
  /\ removeCurrentPopup(removeCurrentPopup(CS)).currentPopup = NoPopup

\* C15: a showDefinition message with a failure envelope is rendered as the
\* error popup (when the page has a selection to place it at), whose link
\* is the Google search for the percent-encoded selectedText of the message.
FailureRendersError ==
  [][\A m \in Messages :
       (m.action = "showDefinition" /\ ~m.definition.success /\ Receive(m))
       => IF pageSelection.rangeCount = 0 THEN currentPopup' = NoPopup
          ELSE /\ currentPopup'.kind = "Error"
               /\ currentPopup'.text = GOOGLE_SEARCH \o encodeURIComponent(m.selectedText)
               /\ domPopups' = {currentPopup'.id}]_vars

\* the error popup for the looked-up text "a z" is displayed
C15Witness ==
  /\ Displayed
  /\ currentPopup.kind = "Error"
  /\ currentPopup.text = GOOGLE_SEARCH \o <<"a", "%", "2", "0", "z">>

\* C16: every error popup carries the Google search link for the
\* percent-encoded text selected for a lookup (as selected, or as looked up
\* after truncation and sanitization), whichever message it comes from.
ErrorLinkCarriesSelection ==
  currentPopup.kind = "Error"
  => \E l \in Lookups :
       LET r == lk[l]
       IN /\ r.selectedText # <<>>
          /\ currentPopup.text \in
               { GOOGLE_SEARCH \o encodeURIComponent(r.selectedText),
                 GOOGLE_SEARCH \o encodeURIComponent(sanitizeText(Truncate(r.selectedText))) }

\* C17: whatever the state of the page, the listener answers every message
\* exactly once: {success: false} when the handler throws (a success
\* envelope without data, rendered at a selection), {success: true}
\* otherwise, also for an action it does not know.
ExactlyOneResponse ==
  \A m \in Messages :
    LET after == onMessage(CS, pageSelection, m)
        throws == /\ m.action = "showDefinition"
                  /\ m.definition.success
                  /\ m.definition.data.isNull
                  /\ pageSelection.rangeCount = 1
    IN /\ Len(after.responses) = 1
       /\ after.responses[1].success = ~throws

\* the listener has handled a message whose handler threw half-way: the
\* popup element was created and not attached
C17Witness ==
  /\ currentPopup.kind = "Definition"
  /\ currentPopup.id \notin domPopups
  /\ ~isPopupVisible
  /\ \E m \in Messages : ~onMessage(CS, pageSelection, m).responses[1].success

\* the step delivers the message lookup l is sending
Delivers(l) ==
  /\ lk[l].pc \in {"send1", "send2"}
  /\ lk[l].sendResult = "none"
  /\ lk'[l].sendResult = "true"

\* the page without a popup
EmptyPage ==
  [currentPopup |-> NoPopup, currentSelection |-> NoSelection,
   isPopupVisible |-> FALSE, dom |-> {}, keydown |-> {}, click |-> {},
   threw |-> FALSE, responses |-> <<>>]

\* C18: when the earlier lookup's race settles while the later lookup's
\* result popup is displayed, the delivery of the earlier lookup's
\* showDefinition leaves that popup as it is.
EarlierResultIgnored ==
  [][\A l \in Lookups :
       (/\ Delivers(l)
        /\ lk[l].action = "showDefinition"
        /\ lk[l].overtaken
        /\ ResultDisplayed
        /\ \E later \in Lookups :
             /\ later > l
             /\ lk[later].pc = "done"
             /\ lk[later].exit = "completed"
             /\ lk[later].sendResult = "true")
       => UNCHANGED contentVars]_vars

\* C19: overlapping lookups are neither queued nor cancelled: every
\* delivered message leaves the page as it would leave a page without a
\* popup, so the popup on the page is the one of the message delivered last;
\* and every lookup that completes has issued its own request and both its
\* messages.
LastDeliveryWins ==
  /\ [](\A l \in Lookups :
          (lk[l].pc = "done" /\ lk[l].exit = "completed")
          => lk[l].requests = 1 /\ lk[l].sent = {"showLoading", "showDefinition"})
  /\ [][\A l \in Lookups :
          Delivers(l)
          => LET alone == onMessage(EmptyPage, pageSelection, MessageOf(lk[l]))
             IN /\ currentPopup' = alone.currentPopup
                /\ currentSelection' = alone.currentSelection
                /\ isPopupVisible' = alone.isPopupVisible
                /\ domPopups' = alone.dom
                /\ keydownListeners' = alone.keydown
                /\ clickListeners' = alone.click]_vars

\* both lookups have completed, and the result of the one pressed first was
\* delivered after the result popup of the other was on the page
C19Witness ==
  /\ \A l \in Lookups :
       lk[l].pc = "done" /\ lk[l].exit = "completed" /\ lk[l].sendResult = "true"
  /\ Cardinality(Lookups) = 2
  /\ lk[1].overtaken
  /\ Displayed

\* C20: the selection captured when showLoading was handled is the one the
\* lookup's definition or error popup is placed at: when showDefinition is
\* delivered over the lookup's loading popup, the new popup is displayed at
\* the loading popup's bounding box and currentSelection is the captured
\* range, whatever the page's selection is by then.
SelectionCapturedOnce ==
  [][\A l \in Lookups :
       (/\ Delivers(l)
        /\ lk[l].action = "showDefinition"
        /\ ~(lk[l].definition.success /\ lk[l].definition.data.isNull)
        /\ Displayed
        /\ currentPopup.kind = "Loading")
       => /\ currentPopup'.id \in domPopups'
          /\ currentPopup'.kind \in {"Definition", "Error"}
          /\ currentPopup'.anchor = currentPopup.anchor
          /\ currentSelection' = currentSelection]_vars

\* s has a substring & [a-zA-Z0-9#]+ ;
HasEntity(s) ==
  \E i \in 1..Len(s) : \E j \in (i + 2)..Len(s) :
    /\ s[i] = "&"
    /\ s[j] = ";"
    /\ \A k \in (i + 1)..(j - 1) : IsEntityChar(s[k])

\* only [\w\s'-], no entity, no two white spaces in a row, none at the ends
IsClean(s) ==
  /\ \A i \in 1..Len(s) : IsKept(s[i])
  /\ ~HasEntity(s)
  /\ \A i \in 1..(Len(s) - 1) : ~(IsSpace(s[i]) /\ IsSpace(s[i + 1]))
  /\ s # <<>> => ~IsSpace(s[1]) /\ ~IsSpace(s[Len(s)])

\* C21: for every text, sanitizeText returns a text of word characters,
\* white space, apostrophes and hyphens only, without an entity, without a
\* run of white space and without white space at its ends; so is the text
\* the handler goes on with.
SanitizedIsClean ==
  /\ IsClean(sanitizeText(pageSelection.text))
  /\ \A l \in Lookups : IsClean(lk[l].sanitizedText)

\* the handler has sanitized " &#;a" to "a"
C21Witness ==
  /\ pageSelection.text = <<" ", "&", "#", ";", "a">>
  /\ \E l \in Lookups : lk[l].pc = "send1" /\ lk[l].sanitizedText = <<"a">>

\* the positions of the elements of html with the tag
Positions(html, tag) == { i \in 1..Len(html) : html[i].tag = tag }

\* the k-th smallest member of a set of numbers
Nth(S, k) == CHOOSE i \in S : Cardinality({ j \in S : j < i }) = k - 1

\* the elements with the tag inside the k-th meaning-item of html
Inside(html, k, tag) ==
  SelectSeq(SubSeq(html, Nth(Positions(html, "meaning-item"), k) + 1,
                         Nth(Positions(html, "/meaning-item"), k) - 1),
            LAMBDA e : e.tag = tag)

\* html has one block per meaning in order, a divider before each block but
\* the first, and in each block the part of speech if there is one and the
\* first three definitions numbered from 1, and nothing else
Rendered(html, meanings) ==
  LET n == Len(meanings)
  IN /\ Cardinality(Positions(html, "meaning-item")) = n
     /\ Cardinality(Positions(html, "/meaning-item")) = n
     /\ Cardinality(Positions(html, "hr")) = IF n = 0 THEN 0 ELSE n - 1
     /\ \A i \in Positions(html, "meaning-item") :
          IF i = Nth(Positions(html, "meaning-item"), 1) THEN i = 1
          ELSE html[i - 1].tag = "hr"
     /\ \A k \in 1..n :
          /\ Inside(html, k, "part-of-speech")
               = IF meanings[k].partOfSpeech = "" THEN <<>>
                 ELSE << Html("part-of-speech", 0, meanings[k].partOfSpeech) >>
          /\ Inside(html, k, "definition-item")
               = [i \in 1..Min(3, Len(meanings[k].definitions)) |->
                    Html("definition-item", i, meanings[k].definitions[i])]
          /\ Inside(html, k, "hr") = <<>>
          /\ Inside(html, k, "p") = <<>>
          /\ Inside(html, k, "meaning-item") = <<>>
     /\ \A i \in 1..Len(html) :
          html[i].tag \in {"hr", "meaning-item", "/meaning-item", "part-of-speech",
                           "definitions", "definition-item", "/definitions", "p"}

\* C22: when the content script is handed an entry, the popup it shows has
\* one block per meaning in the order of the entry, one divider before every
\* block but the first, and in each block the part-of-speech label only if
\* the meaning has one and exactly the first min(3, k) of its k definitions,
\* numbered 1, 2, 3; nothing stands for the definitions left out.
FormatRenders ==
  [][\A l \in Lookups :
       (/\ Delivers(l)
        /\ lk[l].action = "showDefinition"
        /\ lk[l].definition.success
        /\ ~lk[l].definition.data.isNull)
       => /\ currentPopup'.kind = "Definition"
          /\ Rendered(currentPopup'.body, lk[l].definition.data.meanings)]_vars

\* an entry of two meanings, the second with four definitions, is on display:
\* one divider, one label, and definitions numbered up to 3
C22Witness ==
  /\ currentPopup.kind = "Definition"
  /\ currentPopup.id \in domPopups
  /\ \E l \in Lookups : lk[l].exit = "completed"
  /\ Cardinality(Positions(currentPopup.body, "hr")) = 1
  /\ Cardinality(Positions(currentPopup.body, "part-of-speech")) = 1
  /\ Cardinality(Positions(currentPopup.body, "definition-item")) = 4
  /\ currentPopup.body[Len(currentPopup.body) - 2]
       = Html("definition-item", 3, "third")

\* the popup on the page has been placed by positionPopup
Placed == currentPopup.id # 0 /\ currentPopup.id \in domPopups

\* the popup fits above, below its selection
FitsAbove == currentPopup.anchor.top >= page.popupHeight + margin
FitsBelow == page.innerHeight - currentPopup.anchor.bottom >= page.popupHeight + margin

\* C23: a popup placed at a selection with at least the popup's height plus
\* the margin above it in the window has its top, in page coordinates, at
\* the selection's top minus the popup's height minus the margin, and is
\* marked as positioned above.
PlacedAbove ==
  (Placed /\ FitsAbove)
  => /\ currentPopup.top
          = (currentPopup.anchor.top + page.scrollTop) - page.popupHeight - margin
     /\ currentPopup.positioned = "above"

\* on a page scrolled by 30, a popup of height 20 stands above a selection
\* whose top is 30 below the top of the window
C23Witness ==
  /\ Placed
  /\ page.scrollTop = 30
  /\ page.popupHeight = 20
  /\ currentPopup.anchor.top = 30
  /\ currentPopup.top = 35
  /\ currentPopup.positioned = "above"

\* C24: the popup is above when it fits above, else below when it fits
\* below, else on the side with more room; in that last case it is, whatever
\* the scroll offset, at least 10px inside the top edge of the window when
\* above and inside the bottom edge when below.
VerticalSideAndClamp ==
  Placed =>
    LET above == currentPopup.anchor.top
        below == page.innerHeight - currentPopup.anchor.bottom
        topInWindow == currentPopup.top - page.scrollTop
    IN /\ FitsAbove => currentPopup.positioned = "above"
       /\ (~FitsAbove /\ FitsBelow) => currentPopup.positioned = "below"
       /\ (~FitsAbove /\ ~FitsBelow /\ above > below)
            => /\ currentPopup.positioned = "above"
               /\ topInWindow >= 10
       /\ (~FitsAbove /\ ~FitsBelow /\ below > above)
            => /\ currentPopup.positioned = "below"
               /\ topInWindow + page.popupHeight <= page.innerHeight - 10

\* twice the left coordinate that centres the popup on its selection, in
\* page coordinates
TwiceCentred ==
  2 * (currentPopup.anchor.left + page.scrollLeft) + currentPopup.anchor.width
  - page.popupWidth

\* C25 as stated: the left coordinate of a placed popup is within
\* [10, window width - popup width - 10], and is the centred one when that is
\* within the interval.
LeftWithinInterval ==
  Placed =>
    /\ currentPopup.left >= 10
    /\ currentPopup.left <= page.innerWidth - page.popupWidth - 10
    /\ (TwiceCentred >= 20 /\ TwiceCentred <= 2 * (page.innerWidth - page.popupWidth - 10))
         => 2 * currentPopup.left = TwiceCentred

\* C25: when the window is at least 20px wider than the popup, the left
\* coordinate of a placed popup is within [10, window width - popup width -
\* 10], and is the centred one when that is within the interval.
LeftWithinIntervalIfAny ==
  (Placed /\ page.innerWidth - page.popupWidth - 10 >= 10)
  => /\ currentPopup.left >= 10
     /\ currentPopup.left <= page.innerWidth - page.popupWidth - 10
     /\ (TwiceCentred >= 20 /\ TwiceCentred <= 2 * (page.innerWidth - page.popupWidth - 10))
          => 2 * currentPopup.left = TwiceCentred

\* a popup of width 40 in a window of width 80, centred on a selection at the
\* right edge, has been moved left to 30
C25Witness ==
  /\ Placed
  /\ page.innerWidth = 80
  /\ page.popupWidth = 40
  /\ TwiceCentred > 60
  /\ currentPopup.left = 30

\* the page's background is rgb(r, g, b) for no r, g, b
Unparsed ==
  \A r \in Levels : \A g \in Levels : \A b \in Levels :
    page.backgroundColor # RgbString(r, g, b)

\* C26: the theme of a popup has the brightness (299r + 587g + 114b) / 1000
\* of a background rgb(r, g, b), so 0 for black and 255 for white, and 255
\* for a background that is not of that form; it is dark when the brightness
\* is below 128, and otherwise exactly when the body or the root element has
\* the class dark or the background contains rgb(0, 0, 0) or rgb(20, 20, 20).
\* (brightness is in thousandths.)
ThemeDecision ==
  currentPopup.id # 0 =>
    LET theme == currentPopup.theme
        bg == page.backgroundColor
    IN /\ \A r \in Levels : \A g \in Levels : \A b \in Levels :
            bg = RgbString(r, g, b)
            => theme.brightness = 299 * r + 587 * g + 114 * b
       /\ bg = RgbString(0, 0, 0) => theme.brightness = 0
       /\ bg = RgbString(255, 255, 255) => theme.brightness = 255 * 1000
       /\ Unparsed => theme.brightness = 255 * 1000
       /\ theme.brightness < 128 * 1000 => theme.isDark
       /\ theme.brightness >= 128 * 1000
            => (theme.isDark <=> \/ page.bodyDark
                                 \/ page.rootDark
                                 \/ Includes(bg, RgbString(0, 0, 0))
                                 \/ Includes(bg, RgbString(20, 20, 20)))

\* a popup on a page whose background has brightness 128 exactly and whose
\* root element has the class dark
C26Witness ==
  /\ currentPopup.id # 0
  /\ page.backgroundColor = RgbString(128, 128, 128)
  /\ page.rootDark
  /\ ~page.bodyDark
  /\ currentPopup.theme.brightness = 128 * 1000
  /\ currentPopup.theme.isDark

\* the step is the first onInstalled event setting the flag
FirstInstall == installed = "no" /\ installed' = "yes" /\ extensionEnabled' = "true"

\* the step is a chrome.storage.local.set of the toggle panel writing the flag
ToggleWrites == \E i \in DOMAIN panel.pending : SetSettles(i)

\* C27: no step of a lookup changes the flag, and a lookup that reads a flag
\* other than false goes on as enabled; the flag changes only by the first
\* install, which sets it to true, or by a write of the toggle panel; so a
\* flag of false stays false until the toggle panel writes true.
FlagOwnedByToggle ==
  [][/\ (\E l \in Lookups : lk'[l] # lk[l]) => extensionEnabled' = extensionEnabled
     /\ \A l \in Lookups :
          (lk[l].pc = "storageGet" /\ lk'[l].pc = "tabsQuery")
          <=> (lk[l].pc = "storageGet" /\ lk'[l].pc # "catchQuery"
               /\ extensionEnabled # "false")
     /\ extensionEnabled' # extensionEnabled => (FirstInstall \/ ToggleWrites)
     /\ (extensionEnabled = "false" /\ extensionEnabled' # "false")
          => (ToggleWrites /\ extensionEnabled' = "true")]_vars

\* C28: when the shortcut is pressed again while an earlier lookup that has
\* issued its request is still in flight, the later lookup issues no request
\* of its own.
Debounced ==
  \A earlier \in Lookups : \A later \in Lookups :
    (/\ earlier < later
     /\ lk[earlier].pc \notin {"idle", "done"}
     /\ lk[earlier].requests > 0)
    => lk[later].requests = 0

\* C29: the result of a lookup on a selection of a single character is shown
\* as the fallback popup, never as a definition popup.
SingleCharacterFallsBack ==
  [][\A l \in Lookups :
       (/\ Delivers(l)
        /\ lk[l].action = "showDefinition"
        /\ Len(lk[l].selectedText) = 1)
       => /\ currentPopup'.kind # "Definition"
          /\ currentPopup'.id # 0 => currentPopup'.kind = "Error"]_vars

\* the place of a lookup in the handler: the reads of the flag, of the tab
\* and of the selection (with the sanitization), the send of showLoading, the
\* request, the send of showDefinition; then the catch block and the end
Phase(r) ==
  IF r.pc = "idle" THEN 0
  ELSE IF r.pc = "storageGet" THEN 1
  ELSE IF r.pc = "tabsQuery" THEN 2
  ELSE IF r.pc = "getSelectedText" THEN 3
  ELSE IF r.pc \in SendPcs /\ r.action = "showLoading" THEN 4
  ELSE IF r.pc = "race" THEN 5
  ELSE IF r.pc \in SendPcs /\ r.action = "showDefinition" THEN 6
  ELSE IF r.pc = "catchQuery" THEN 7
  ELSE IF r.pc \in SendPcs /\ r.action = "showError" THEN 8
  ELSE 9

\* C30: a lookup goes through its steps in the order enabled check, selection
\* capture, sanitization, send of showLoading with its retry, dictionary
\* request, send of showDefinition; the request is issued only after the send
\* of showLoading has returned, and when the content script receives a
\* lookup's showLoading that lookup has not sent showDefinition.
StepOrder ==
  /\ [][\A l \in Lookups : Phase(lk'[l]) >= Phase(lk[l])]_vars
  /\ [](\A l \in Lookups :
          LET r == lk[l]
          IN /\ r.tab => r.isEnabled
             /\ r.selectedText # <<>> => r.tab
             /\ (r.pc \in SendPcs /\ r.action = "showLoading")
                  => /\ r.sanitizedText = sanitizeText(r.selectedText)
                     /\ r.requests = 0
                     /\ r.sent = {"showLoading"}
             /\ r.requests > 0 => "showLoading" \in r.sent
             /\ r.pc = "race" => r.sent = {"showLoading"} /\ r.sendResult # "none"
             /\ "showDefinition" \in r.sent => r.requests = 1)
  /\ [][\A l \in Lookups :
          (Delivers(l) /\ lk[l].action = "showLoading")
          => "showDefinition" \notin lk[l].sent]_vars

\* a lookup has gone through all its steps and its definition is on display
C30Witness ==
  /\ Displayed
  /\ currentPopup.kind = "Definition"
  /\ \E l \in Lookups :
       /\ lk[l].exit = "completed"
       /\ lk[l].sent = {"showLoading", "showDefinition"}
       /\ lk[l].requests = 1

\* the three palettes of calculateContrastColors, by their background
VeryLightPalette ==
  [background |-> "#2c3e50", text |-> "#ffffff", border |-> "#34495e",
   shadow |-> "rgba(0, 0, 0, 0.3)"]
MediumPalette ==
  [background |-> "#34495e", text |-> "#ecf0f1", border |-> "#2c3e50",
   shadow |-> "rgba(0, 0, 0, 0.25)"]
DarkPagePalette ==
  [background |-> "#ffffff", text |-> "#2c3e50", border |-> "#e9ecef",
   shadow |-> "rgba(0, 0, 0, 0.15)"]

\* C33: the palette of a popup depends on the brightness of the page alone
\* (not on the dark-theme flag): the very-light palette above 200, the medium
\* palette from 128 to 200 inclusive, the dark-page palette below 128.
\* (brightness is in thousandths.)
PaletteBands ==
  currentPopup.id # 0 =>
    LET theme == currentPopup.theme
    IN theme.colors =
         IF theme.brightness > 200 * 1000 THEN VeryLightPalette
         ELSE IF theme.brightness >= 128 * 1000 THEN MediumPalette
         ELSE DarkPagePalette

\* C34: a lookup on a selection of more than 50 characters issues no request
\* and sends neither showLoading nor showDefinition; the text of every
\* message and of every request has at most 50 characters.
NoLongText ==
  \A l \in Lookups :
    LET r == lk[l]
    IN /\ Len(r.selectedText) > SELECTION_LIMIT
            => /\ r.requests = 0
               /\ r.sent \subseteq {"showError"}
       /\ Len(r.sanitizedText) <= SELECTION_LIMIT
       /\ r.pc \in SendPcs => Len(MessageOf(r).selectedText) <= SELECTION_LIMIT
       /\ r.requests > 0
            => /\ Len(r.selectedText) <= SELECTION_LIMIT
               /\ r.url = DICTIONARY_API_BASE
                            \o encodeURIComponent(sanitizeText(r.selectedText))

\* the handler has ended on a selection of 51 characters, with nothing sent
\* but showError and no request
C34Witness ==
  \E l \in Lookups :
    /\ lk[l].pc = "done"
    /\ lk[l].selectedText = LongWord
    /\ lk[l].caught
    /\ lk[l].sent = {"showError"}
    /\ lk[l].requests = 0

\* C35: a click flips the switch; the write of a click, when it succeeds,
\* stores the negation of what the switch showed before the click, which is
\* what it showed after it, whatever other clicks are pending; when the write
\* fails, the catch block leaves the switch showing the stored flag.
ToggleFlips ==
  [][/\ handleToggleClick
          => /\ panel'.active = ~panel.active
             /\ panel'.pending[Len(panel'.pending)].newState = panel'.active
     /\ \A i \in DOMAIN panel.pending :
          SetSettles(i)
          => \/ extensionEnabled' = ToFlag(~panel.pending[i].shown)
             \/ /\ extensionEnabled' = extensionEnabled
                /\ panel.open => panel'.pending[i].stage = "revert"
     /\ \A i \in DOMAIN panel.pending :
          RevertGet(i) => panel'.active = (extensionEnabled # "false")]_vars

\* the lookup has left the page unreached or without a selection: its last
\* send has failed, or the page holds no selection range
PageLost ==
  \/ pageSelection.rangeCount = 0
  \/ \E l \in Lookups : lk[l].pc = "done" /\ lk[l].sendResult = "false"

\* C31: when the timer eventually fires, a lookup that has sent showLoading
\* eventually sends showDefinition, with a success or failure envelope; and
\* a Loading popup on display is eventually followed by a definition or
\* error popup on display, unless the page is out of reach or without a
\* selection.
EventuallyResult ==
  /\ ("showLoading" \in lk[1].sent) ~> ("showDefinition" \in lk[1].sent)
  /\ [](lk[1].pc \in SendPcs /\ lk[1].action = "showDefinition"
          => lk[1].definition # NoDefinition)
  /\ (Displayed /\ currentPopup.kind = "Loading") ~> (ResultDisplayed \/ PageLost)

\* the step is a dismissal by the user: the close button, a click, Escape
Dismissal ==
  \/ ClickClose
  \/ \E target \in {0} \cup domPopups : Click(target)
  \/ Escape

\* the Loading popup of the lookup has been dismissed while its request is
\* pending
LoadingDismissed ==
  /\ lk[1].pc = "race"
  /\ lk[1].sendResult = "true"
  /\ currentPopup = NoPopup

\* C32: a dismissal changes nothing in the lookup; after the Loading popup has
\* been dismissed the lookup still sends showDefinition, and its delivery to
\* a page without popup but with a selection range puts a definition or error
\* popup on display.
DismissalDoesNotCancel ==
  /\ [][Dismissal => lk' = lk]_vars
  /\ LoadingDismissed ~> ("showDefinition" \in lk[1].sent)
  /\ [][(/\ Delivers(1)
         /\ lk[1].action = "showDefinition"
         /\ currentPopup = NoPopup
         /\ pageSelection.rangeCount > 0)
        => /\ currentPopup'.id \in domPopups'
           /\ isPopupVisible'
           /\ currentPopup'.kind \in {"Definition", "Error"}]_vars
====
